---- MODULE Spec2Model ----
(***************************************************************************)
(* A model of the PSD reader (package psd): the layer tree builder         *)
(* (image.go LayerMask.buildTree, renderer.go Node), the channel image     *)
(* decoder (layer.go), the resource section parser (resource.go) and the   *)
(* lazily parsing document facade (psd.go).                                *)
(***************************************************************************)
EXTENDS Integers, Sequences, FiniteSets, TLC

\* ------------------------------------------------------------------------
\* Bounds of the model
\* ------------------------------------------------------------------------
MaxLayers == 4
\* longest log of section reads one document instance is followed for
MaxReads == 5

\* ------------------------------------------------------------------------
\* Program constants
\* ------------------------------------------------------------------------
NodeTypeRoot == "root"
NodeTypeGroup == "group"
NodeTypeLayer == "layer"

\* a nil pointer (node ids and object ids start at 1)
NIL == 0

VARIABLES
    \* ---- layer tree builder (LayerMask.buildTree) ----
    lmLayers,   \* lm.Layers: the flat layer list, in iteration order
    doc,        \* <<header.Rows, header.Cols>> of the document
    nodes,      \* arena of the Node objects allocated so far, by node id
    stack,      \* the local stack of buildTree (node ids, bottom first)
    btIdx,      \* index of the next layer the loop of buildTree visits
    btPc,       \* position in buildTree: "new", "loop", "done"
    tree        \* lm.tree: NIL or the id of the root node

treeVars == <<lmLayers, doc, nodes, stack, btIdx, btPc, tree>>

VARIABLES
    \* ---- document facade (psd.go: PSD) ----
    file,        \* what the bytes of the opened file hold, section by section
    cursor,      \* stream position: number of sections consumed, or Lost
    header,      \* p.header: NIL or the id of the Header object
    resources,   \* p.resources: NIL or the id of the ResourceSection object
    layerMask,   \* p.layerMask: NoLayerMask or the LayerMask object
    image,       \* p.image: NIL or the id of the Image object
    parsed,      \* p.parsed
    nextId,      \* id the next allocated section object gets
    fault,       \* TRUE once a call has panicked (nil pointer dereference)
    readLog,     \* history: the sections whose Parse read the stream, in order
    lastCall,    \* history: the last call on the instance and what it returned
    parseFailed  \* history: stage at which the latest Parse() failed, or 0

psdVars == <<file, cursor, header, resources, layerMask, image, parsed, nextId,
             fault, readLog, lastCall, parseFailed>>

VARIABLES
    \* ---- channel RLE decoder (layer.go: Layer.decompressRLE) ----
    rleData,    \* compressedData: the bytes of the channel after the method
    rleW,       \* l.Width()
    rleH,       \* l.Height()
    rleOut,     \* the plane decompressRLE returned
    rlePc       \* "new", "done", or "panic" (make with a negative size)

rleVars == <<rleData, rleW, rleH, rleOut, rlePc>>

VARIABLES
    \* ---- channel reader (layer.go: Layer.parseChannelData) ----
    chInfo,     \* l.ChannelInfo: the declared length of each channel
    chDims,     \* <<l.Width(), l.Height()>>
    chFileLen,  \* size of the file, counted from the first channel's start
    chPos,      \* the cursor, counted from the first channel's start
    chIdx,      \* number of channels the loop has been through
    chComp,     \* history: compression method read for the latest channel
    chPc        \* "loop", "done", "error" (I/O error) or "panic"

chanVars == <<chInfo, chDims, chFileLen, chPos, chIdx, chComp, chPc>>

VARIABLES
    \* ---- resource section (resource.go: ResourceSection.Parse) ----
    resLength,  \* the declared length of the section
    resBlocks,  \* the resource blocks the stream holds after the length
    resCut,     \* number of bytes missing at the end of the stream
    resPos,     \* the cursor, counted from the start of the length field
    resMap,     \* r.Resources: id -> index of the block stored for it
    resNext,    \* index in resBlocks of the block at the cursor
    resPc       \* "new", "loop", "done" or "error" (I/O error)

resVars == <<resLength, resBlocks, resCut, resPos, resMap, resNext, resPc>>

VARIABLES
    \* ---- descriptor parser (descriptor.go: DescriptorParser) ----
    descSrc,    \* history: the descriptor that descData encodes
    descCut,    \* history: number of bytes missing at the end of descData
    descData,   \* the bytes handed to NewDescriptorParser
    descRes,    \* what Parse returned: [ok, pos, val]
    descPc      \* "new" or "done"

descVars == <<descSrc, descCut, descData, descRes, descPc>>

VARIABLES
    \* ---- renderer (renderer.go: Renderer) ----
    rnNodes,     \* the node tree: rnNodes[n] is the node whose id is n; the root is 1
    rnOptions,   \* r.options
    rnCanvas,    \* r.canvas: per pixel, the layers blended onto it, oldest first
    rnStack,     \* the calls of renderNode in progress, outermost first
    rnLog,       \* history: the nodes renderLayer was called for, in call order
    rnReturned,  \* history: the nodes whose renderNode call has returned
    rnPc         \* "new", "run" or "done"

rnVars == <<rnNodes, rnOptions, rnCanvas, rnStack, rnLog, rnReturned, rnPc>>

VARIABLES
    \* ---- blend mode (layer.go: Layer.BlendMode, header.go: GetBlendFunc) ----
    blKey,      \* layer.BlendModeKey, also the name GetBlendFunc is called with
    blSrc,      \* the source pixel, a color.RGBA
    blDst,      \* the destination pixel, a color.RGBA
    blOpacity,  \* the opacity handed to the blend function
    blFunc,     \* the blend function GetBlendFunc returned, by its name
    blOut,      \* the pixel the blend function returned
    blMode,     \* BlendMode().Mode
    blPc        \* the calls made so far

blVars == <<blKey, blSrc, blDst, blOpacity, blFunc, blOut, blMode, blPc>>

VARIABLES
    \* ---- tree search (renderer.go: Node.Path, Node.ChildrenAtPath) ----
    ptNodes,   \* the node tree: ptNodes[n] is the node whose id is n; the root is 1
    ptNode,    \* the node Path was called on, 0 before the call
    ptPath,    \* what n.Path() returned
    ptQuery,   \* the path handed to root.ChildrenAtPath
    ptResult,  \* the nodes ChildrenAtPath returned
    ptPc       \* "new", "path", "found" or "searched"

ptVars == <<ptNodes, ptNode, ptPath, ptQuery, ptResult, ptPc>>

VARIABLES
    \* ---- byte cursor (psd.go: File) ----
    cuData,   \* the bytes of the file
    cuPos,    \* the offset of the file
    cuCall,   \* the latest call: [op, n]
    cuRet,    \* what it returned: [err, n, val]
    cuCalls,  \* number of calls made
    cuPc      \* "open"

cuVars == <<cuData, cuPos, cuCall, cuRet, cuCalls, cuPc>>

VARIABLES
    \* ---- document instances (psd.go: New; image.go: LayerMask.Parse) ----
    inOpen,     \* the open files of the process: [name, pos], one per os.Open
    inst,       \* the PSD instances
    inResults,  \* the parses that ended: <<file name, result>>
    inMixed     \* the instances that read while the other one was reading

inVars == <<inOpen, inst, inResults, inMixed>>

VARIABLES
    \* ---- flattened image (image.go: Image.parseRLE) ----
    flRows,  \* the encoded scanlines of the file, channel after channel
    flCut,   \* the number of bytes missing at the end of the file
    flW,     \* the width of the document
    flH,     \* the height of the document
    flOut,   \* what parseRLE left: [err, channelData, starts]
    flPc     \* "new", "done"

flVars == <<flRows, flCut, flW, flH, flOut, flPc>>

VARIABLES
    \* ---- layer record extra data (layer.go: Layer.parseRecord) ----
    exShape,  \* the parts the file was written from
    exData,   \* the bytes of the file from the extra-data length field on
    exPos,    \* the offset of the file
    exLen,    \* extraLen
    exStart,  \* extraStart
    exEnd,    \* endPos of parseAdditionalLayerInfo
    exMask,   \* l.Mask: <<>> for nil, else <<mask>>
    exName,   \* l.Name, as bytes
    exInfo,   \* l.LayerInfo: the pairs <<key, data>> stored
    exPc      \* "len", "mask", "ranges", "name", "info", "done", "failed"

exVars == <<exShape, exData, exPos, exLen, exStart, exEnd, exMask, exName, exInfo, exPc>>

VARIABLES
    \* ---- layer mask (layer.go: parseChannelData; renderer.go: renderLayer) ----
    mkLayer,    \* the rectangle of the layer
    mkMask,     \* layer.Mask: <<>> for nil, else <<rectangle>>
    mkComp,     \* the compression of channel -2 in the file
    mkAlpha,    \* the alpha of the pixels of the layer image
    mkChannel,  \* layer.channels[-2]: <<>> when absent, else <<Data>>
    mkIdx,      \* the number of pixels the loop has visited
    mkSrc,      \* the source colours that were blended, by pixel
    mkCanvas,   \* the pixels written to the canvas
    mkPc        \* "parse", "render", "done"

mkVars == <<mkLayer, mkMask, mkComp, mkAlpha, mkChannel, mkIdx, mkSrc, mkCanvas, mkPc>>

VARIABLES
    \* ---- composition of two pixels (header.go: the blend functions) ----
    cpFunc,     \* the name of the blend function called
    cpSrc,      \* the source pixel
    cpDst,      \* the destination pixel
    cpOpacity,  \* the opacity passed to the blend function
    cpOut,      \* the pixel the blend function returned
    cpPc        \* "idle", "call" or "done"

cpVars == <<cpFunc, cpSrc, cpDst, cpOpacity, cpOut, cpPc>>

VARIABLES
    \* ---- parse of the layer and mask section (image.go: LayerMask.Parse) ----
    liDoc,     \* the document that is parsed
    liRead,    \* the offset of the file in the bytes of the section
    liLog,     \* the records and channel data blocks read, in the order of the reads
    liLayers,  \* lm.Layers: per layer <<>> (nil) or its record and channel data
    liNodes,   \* the nodes of the tree
    liRoot,    \* lm.tree: NIL or the root node
    liCalls,   \* what the calls of Layers() and Tree() returned
    liPc       \* the place of the parse

liVars == <<liDoc, liRead, liLog, liLayers, liNodes, liRoot, liCalls, liPc>>

vars == <<treeVars, psdVars, rleVars, chanVars, resVars, descVars, rnVars, blVars, ptVars, cuVars, inVars, flVars, exVars, mkVars, cpVars, liVars>>

\* ------------------------------------------------------------------------
\* Values shared by the parts of the model
\* ------------------------------------------------------------------------
\* the cursor after a section parser stopped part-way through its section
Lost == -1

\* the sections of a document, in stream order
StageHeader == 1
StageResources == 2
StageLayerMask == 3
StageImage == 4

\* p.layerMask == nil
NoLayerMask == [id |-> NIL, hasTree |-> FALSE]

NilRet == [kind |-> "nil", id |-> 0]

Accessors ==
    {"Header", "Resources", "LayerMask", "Image", "Layers", "Tree",
     "LayerComps", "Slices", "Guides"}

\* a document instance that takes no part in the behaviour
PsdIdle ==
    /\ file = [sig |-> "8BPS", version |-> 1, truncated |-> 0,
               blendSig |-> "8BIM", lmLength |-> 0, compression |-> 0]
    /\ cursor = 0
    /\ header = NIL /\ resources = NIL /\ layerMask = NoLayerMask
    /\ image = NIL /\ parsed = FALSE /\ nextId = 1 /\ fault = FALSE
    /\ readLog = <<>>
    /\ lastCall = [name |-> "New", ret |-> NilRet]
    /\ parseFailed = 0

\* a tree builder that takes no part in the behaviour
TreeIdle ==
    /\ lmLayers = <<>> /\ doc = <<1, 1>> /\ nodes = <<>> /\ stack = <<>>
    /\ btIdx = 0 /\ btPc = "idle" /\ tree = NIL

\* an RLE decoder that takes no part in the behaviour
RleIdle ==
    /\ rleData = <<>> /\ rleW = 0 /\ rleH = 0 /\ rleOut = <<>>
    /\ rlePc = "idle"

\* a channel reader that takes no part in the behaviour
ChanIdle ==
    /\ chInfo = <<>> /\ chDims = <<0, 0>> /\ chFileLen = 0 /\ chPos = 0
    /\ chIdx = 0 /\ chComp = 0 /\ chPc = "idle"

\* a resource section that takes no part in the behaviour
ResIdle ==
    /\ resLength = 0 /\ resBlocks = <<>> /\ resCut = 0 /\ resPos = 0
    /\ resMap = <<>> /\ resNext = 0 /\ resPc = "idle"

\* the nil value of an interface{} or of a map
NilValue == [t |-> "nil", v |-> <<>>]

\* a descriptor parser that takes no part in the behaviour
DescIdle ==
    /\ descSrc = <<>> /\ descCut = 0 /\ descData = <<>>
    /\ descRes = [ok |-> FALSE, pos |-> 0, val |-> NilValue]
    /\ descPc = "idle"

\* a renderer (renderer.go: Renderer) that takes no part in the behaviour
RenderIdle ==
    /\ rnNodes = <<>>
    /\ rnOptions = [ExcludeTextLayers |-> FALSE, ExcludeTypes |-> <<>>]
    /\ rnCanvas = <<>>
    /\ rnStack = <<>>
    /\ rnLog = <<>>
    /\ rnReturned = {}
    /\ rnPc = "idle"

\* a blend mode (layer.go: Layer.BlendMode, header.go: GetBlendFunc) that takes no part in the behaviour
BlendIdle ==
    /\ blKey = ""
    /\ blSrc = [R |-> 0, G |-> 0, B |-> 0, A |-> 0]
    /\ blDst = [R |-> 0, G |-> 0, B |-> 0, A |-> 0]
    /\ blOpacity = 0
    /\ blFunc = ""
    /\ blOut = [R |-> 0, G |-> 0, B |-> 0, A |-> 0]
    /\ blMode = ""
    /\ blPc = {"idle"}

\* a tree search (renderer.go: Node.Path, Node.ChildrenAtPath) that takes no part in the behaviour
PathIdle ==
    /\ ptNodes = <<>>
    /\ ptNode = 0
    /\ ptPath = ""
    /\ ptQuery = [t |-> "string", v |-> ""]
    /\ ptResult = <<>>
    /\ ptPc = "idle"

\* a byte cursor (psd.go: File) that takes no part in the behaviour
CursorIdle ==
    /\ cuData = <<>>
    /\ cuPos = 0
    /\ cuCall = [op |-> "none", n |-> 0]
    /\ cuRet = [err |-> FALSE, n |-> 0, val |-> <<>>]
    /\ cuCalls = 0
    /\ cuPc = "idle"

\* a document instances (psd.go: New; image.go: LayerMask.Parse) that takes no part in the behaviour
InstIdle ==
    /\ inOpen = <<>>
    /\ inst = <<>>
    /\ inResults = {}
    /\ inMixed = {}

\* a flattened image (image.go: Image.parseRLE) that takes no part in the behaviour
FlatIdle ==
    /\ flRows = <<>>
    /\ flCut = 0
    /\ flW = 0
    /\ flH = 0
    /\ flOut = [err |-> FALSE, channelData |-> <<>>, starts |-> <<>>]
    /\ flPc = "idle"

\* a layer record extra data (layer.go: Layer.parseRecord) that takes no part in the behaviour
ExtraIdle ==
    /\ exShape = <<>>
    /\ exData = <<>>
    /\ exPos = 0
    /\ exLen = 0
    /\ exStart = 0
    /\ exEnd = 0
    /\ exMask = <<>>
    /\ exName = <<>>
    /\ exInfo = {}
    /\ exPc = "idle"

\* a layer mask (layer.go: parseChannelData; renderer.go: renderLayer) that takes no part in the behaviour
MaskIdle ==
    /\ mkLayer = <<>>
    /\ mkMask = <<>>
    /\ mkComp = 0
    /\ mkAlpha = 0
    /\ mkChannel = <<>>
    /\ mkIdx = 0
    /\ mkSrc = <<>>
    /\ mkCanvas = <<>>
    /\ mkPc = "idle"

\* a composition of two pixels (header.go: the blend functions) that takes no part in the behaviour
ComposeIdle ==
    /\ cpFunc = ""
    /\ cpSrc = <<>>
    /\ cpDst = <<>>
    /\ cpOpacity = 0
    /\ cpOut = <<>>
    /\ cpPc = "idle"

\* a parse of the layer and mask section (image.go: LayerMask.Parse) that takes no part in the behaviour
SectionIdle ==
    /\ liDoc = [dims |-> <<1, 1>>, bytes |-> <<>>]
    /\ liRead = 0
    /\ liLog = <<>>
    /\ liLayers = <<>>
    /\ liNodes = <<>>
    /\ liRoot = NIL
    /\ liCalls = <<>>
    /\ liPc = "idle"

\* ------------------------------------------------------------------------
\* Layers (layer.go)
\* ------------------------------------------------------------------------
\* LayerInfo[key] is only ever stored with at least one byte of data
\* (layer.go:363-368), so the empty sequence stands for "key not present".
NoInfo == <<>>

\* Layer.IsFolder: the "lsct" key exists, else the "lsdk" key exists
IsFolder(l) ==
    LET exists == l.lsct # NoInfo
    IN IF ~exists THEN l.lsdk # NoInfo ELSE exists

\* Layer.IsFolderEnd: byte 3 of the section divider data equals 3
IsFolderEnd(l) ==
    IF ~IsFolder(l) THEN FALSE
    ELSE LET data == IF l.lsct # NoInfo THEN l.lsct ELSE l.lsdk
         IN IF data # NoInfo /\ Len(data) >= 4 THEN data[4] = 3 ELSE FALSE

\* ------------------------------------------------------------------------
\* Nodes (renderer.go, second file: Node)
\* ------------------------------------------------------------------------
Width(n) == n.Right - n.Left
Height(n) == n.Bottom - n.Top
IsEmpty(n) == Width(n) = 0 \/ Height(n) = 0

RECURSIVE minInt32Loop(_, _, _, _, _)
minInt32Loop(ns, ids, f, i, min) ==
    IF i > Len(ids) THEN min
    ELSE LET val == ns[ids[i]][f]
         IN minInt32Loop(ns, ids, f, i + 1, IF val < min THEN val ELSE min)

\* minInt32FromNodes(nodes, selector); the selector is a field name
minInt32FromNodes(ns, ids, f) ==
    IF Len(ids) = 0 THEN 0 ELSE minInt32Loop(ns, ids, f, 2, ns[ids[1]][f])

RECURSIVE maxInt32Loop(_, _, _, _, _)
maxInt32Loop(ns, ids, f, i, max) ==
    IF i > Len(ids) THEN max
    ELSE LET val == ns[ids[i]][f]
         IN maxInt32Loop(ns, ids, f, i + 1, IF val > max THEN val ELSE max)

maxInt32FromNodes(ns, ids, f) ==
    IF Len(ids) = 0 THEN 0 ELSE maxInt32Loop(ns, ids, f, 2, ns[ids[1]][f])

\* faulty variant: empty children are not filtered out
NonEmptyChildrenMut(ns, n) == ns[n].Children
\* the children a group's bounding box is computed from
NonEmptyChildren(ns, n) ==
    SelectSeq(ns[n].Children, LAMBDA c : ~IsEmpty(ns[c]))

RECURSIVE UpdateDimensions(_, _)
RECURSIVE UpdateChildren(_, _, _)
\* the loop "for _, child := range n.Children { child.UpdateDimensions() }"
UpdateChildren(ns, cs, i) ==
    IF i > Len(cs) THEN ns
    ELSE UpdateChildren(UpdateDimensions(ns, cs[i]), cs, i + 1)

\* Node.UpdateDimensions, on the arena: returns the arena after the call
UpdateDimensions(ns, n) ==
    IF ns[n].Type = NodeTypeLayer THEN ns
    ELSE LET ns1 == UpdateChildren(ns, ns[n].Children, 1)
         IN IF ns1[n].Type = NodeTypeRoot THEN ns1
            ELSE LET ne == NonEmptyChildren(ns1, n)
                 IN IF Len(ne) = 0
                    THEN [ns1 EXCEPT ![n].Left = 0, ![n].Top = 0,
                                     ![n].Right = 0, ![n].Bottom = 0]
                    ELSE [ns1 EXCEPT
                            ![n].Left = minInt32FromNodes(ns1, ne, "Left"),
                            ![n].Top = minInt32FromNodes(ns1, ne, "Top"),
                            ![n].Right = maxInt32FromNodes(ns1, ne, "Right"),
                            ![n].Bottom = maxInt32FromNodes(ns1, ne, "Bottom")]

RECURSIVE Descendants(_, _)
RECURSIVE DescendantsLoop(_, _, _, _)
DescendantsLoop(ns, cs, i, result) ==
    IF i > Len(cs) THEN result
    ELSE DescendantsLoop(ns, cs, i + 1,
                         (result \o <<cs[i]>>) \o Descendants(ns, cs[i]))

\* Node.Descendants: all descendant nodes, not including n
Descendants(ns, n) == DescendantsLoop(ns, ns[n].Children, 1, <<>>)

DescendantLayers(ns, n) ==
    SelectSeq(Descendants(ns, n), LAMBDA d : ns[d].Type = NodeTypeLayer)

DescendantGroups(ns, n) ==
    SelectSeq(Descendants(ns, n), LAMBDA d : ns[d].Type = NodeTypeGroup)

SubtreeLayers(ns, n) ==
    (IF ns[n].Type = NodeTypeLayer THEN <<n>> ELSE <<>>)
        \o DescendantLayers(ns, n)

SubtreeGroups(ns, n) ==
    (IF ns[n].Type = NodeTypeGroup THEN <<n>> ELSE <<>>)
        \o DescendantGroups(ns, n)

\* ------------------------------------------------------------------------
\* LayerMask.buildTree (image.go, second file)
\* ------------------------------------------------------------------------
notTree == <<psdVars, rleVars, chanVars, resVars, descVars, rnVars, blVars, ptVars, cuVars, inVars, flVars, exVars, mkVars, cpVars, liVars>>

\* the root node literal of buildTree
RootNode ==
    [Type |-> NodeTypeRoot, Layer |-> NIL, Parent |-> NIL, Children |-> <<>>,
     Left |-> 0, Top |-> 0, Right |-> doc[2], Bottom |-> doc[1]]

\* the node literal built from a layer (group or plain layer)
LayerNode(type, i, parent) ==
    [Type |-> type, Layer |-> i, Parent |-> parent, Children |-> <<>>,
     Left |-> lmLayers[i].Left, Top |-> lmLayers[i].Top,
     Right |-> lmLayers[i].Right, Bottom |-> lmLayers[i].Bottom]

\* faulty variant: the child is put in front of its siblings
AppendChildMut(ns, parent, child) ==
    [ns EXCEPT ![parent].Children = <<child>> \o @]
\* parent.Children = append(parent.Children, child)
AppendChild(ns, parent, child) ==
    [ns EXCEPT ![parent].Children = Append(@, child)]

\* faulty variant: a closed group is always attached to the root
AttachTargetMut(stk) == stk[1]
\* parent := stack[len(stack)-1], read after the pop
AttachTarget(stk) == stk[Len(stk)]

\* root := &Node{...}; stack := []*Node{root}
BuildTreeStart ==
    /\ btPc = "new"
    /\ nodes' = <<RootNode>>
    /\ stack' = <<1>>
    /\ btIdx' = 1
    /\ btPc' = "loop"
    /\ UNCHANGED <<lmLayers, doc, tree>>
    /\ UNCHANGED notTree

\* loop body, folder end marker: pop the current group, add it to the parent
FolderEnd ==
    /\ btPc = "loop" /\ btIdx <= Len(lmLayers)
    /\ IsFolder(lmLayers[btIdx]) /\ IsFolderEnd(lmLayers[btIdx])
    /\ IF Len(stack) > 1
       THEN LET currentGroup == stack[Len(stack)]
                stack1 == SubSeq(stack, 1, Len(stack) - 1)
            IN /\ stack' = stack1
               /\ nodes' = AppendChild(nodes, AttachTarget(stack1),
                                       currentGroup)
       ELSE UNCHANGED <<stack, nodes>>
    /\ btIdx' = btIdx + 1
    /\ UNCHANGED <<lmLayers, doc, btPc, tree>>
    /\ UNCHANGED notTree

\* loop body, folder start marker: create a group node, push it
FolderStart ==
    /\ btPc = "loop" /\ btIdx <= Len(lmLayers)
    /\ IsFolder(lmLayers[btIdx]) /\ ~IsFolderEnd(lmLayers[btIdx])
    /\ LET node == LayerNode(NodeTypeGroup, btIdx, stack[Len(stack)])
       IN /\ nodes' = Append(nodes, node)
          /\ stack' = Append(stack, Len(nodes) + 1)
    /\ btIdx' = btIdx + 1
    /\ UNCHANGED <<lmLayers, doc, btPc, tree>>
    /\ UNCHANGED notTree

\* loop body, regular layer: create a layer node under the current parent
RegularLayer ==
    /\ btPc = "loop" /\ btIdx <= Len(lmLayers)
    /\ ~IsFolder(lmLayers[btIdx])
    /\ LET parent == stack[Len(stack)]
           node == LayerNode(NodeTypeLayer, btIdx, parent)
       IN nodes' = AppendChild(Append(nodes, node), parent, Len(nodes) + 1)
    /\ btIdx' = btIdx + 1
    /\ UNCHANGED <<lmLayers, doc, stack, btPc, tree>>
    /\ UNCHANGED notTree

\* after the loop: lm.tree = root; lm.tree.UpdateDimensions()
BuildTreeFinish ==
    /\ btPc = "loop" /\ btIdx > Len(lmLayers)
    /\ tree' = 1
    /\ nodes' = UpdateDimensions(nodes, 1)
    /\ btPc' = "done"
    /\ UNCHANGED <<lmLayers, doc, stack, btIdx>>
    /\ UNCHANGED notTree

\* ------------------------------------------------------------------------
\* Inputs of the tree builder
\* ------------------------------------------------------------------------
Rect(t, l, b, r) == [Top |-> t, Left |-> l, Bottom |-> b, Right |-> r]

MkLayer(lsct, lsdk, rect) ==
    [lsct |-> lsct, lsdk |-> lsdk, Top |-> rect.Top, Left |-> rect.Left,
     Bottom |-> rect.Bottom, Right |-> rect.Right]

\* layer records as parseRecord can leave them: plain layers with empty and
\* non-empty rectangles, section dividers of type 1, 2 and 3 under either
\* key, a divider with fewer than 4 bytes, and a layer carrying both keys
LayerChoices ==
    { MkLayer(NoInfo, NoInfo, Rect(0, 0, 0, 0)),
      MkLayer(NoInfo, NoInfo, Rect(1, 1, 3, 2)),
      MkLayer(NoInfo, NoInfo, Rect(2, 0, 4, 4)),
      MkLayer(NoInfo, NoInfo, Rect(5, 5, 5, 7)),
      MkLayer(<<0, 0, 0, 1>>, NoInfo, Rect(0, 0, 0, 0)),
      MkLayer(<<0, 0, 0, 2>>, NoInfo, Rect(1, 1, 3, 2)),
      MkLayer(<<0, 0, 3>>, NoInfo, Rect(0, 0, 0, 0)),
      MkLayer(<<0, 0, 0, 1>>, <<0, 0, 0, 3>>, Rect(0, 0, 0, 0)),
      MkLayer(<<0, 0, 0, 3>>, NoInfo, Rect(0, 0, 0, 0)),
      MkLayer(NoInfo, <<0, 0, 0, 3>>, Rect(2, 0, 4, 4)) }

DocChoices == { <<4, 6>>, <<1, 1>> }

TreeInit ==
    /\ lmLayers \in UNION { [1..n -> LayerChoices] : n \in 0..MaxLayers }
    /\ doc \in DocChoices
    /\ nodes = <<>>
    /\ stack = <<>>
    /\ btIdx = 0
    /\ btPc = "new"
    /\ tree = NIL

InitTree == TreeInit /\ PsdIdle /\ RleIdle /\ ChanIdle /\ ResIdle /\ DescIdle /\ RenderIdle
    /\ BlendIdle
    /\ PathIdle
    /\ CursorIdle
    /\ InstIdle
    /\ FlatIdle
    /\ ExtraIdle
    /\ MaskIdle
    /\ ComposeIdle
    /\ SectionIdle

NextTree ==
    \/ BuildTreeStart
    \/ FolderEnd
    \/ FolderStart
    \/ RegularLayer
    \/ BuildTreeFinish

SpecTree == InitTree /\ [][NextTree]_vars

\* ------------------------------------------------------------------------
\* Properties of the layer tree (checked under SpecTree)
\* ------------------------------------------------------------------------
Range(s) == { s[i] : i \in DOMAIN s }

SetMin(S) == CHOOSE x \in S : \A y \in S : x <= y
SetMax(S) == CHOOSE x \in S : \A y \in S : x >= y

\* the places <<p, i>> at which node n occurs in some Children list
ChildSlots(ns, n) ==
    { s \in UNION { { <<p, i>> : i \in DOMAIN ns[p].Children } : p \in DOMAIN ns } :
        ns[s[1]].Children[s[2]] = n }

\* the nodes of the tree: what is reachable from lm.tree through Children
TreeNodes == Range(Descendants(nodes, tree))

\* C1: in the tree built from any flat layer list, every node reachable from
\* the root (other than the root) occurs exactly once in exactly one node's
\* Children list, that node is its Parent, and the number of descendants of
\* the root equals the number of layer nodes plus the number of group nodes
\* in the root's subtree.
C1_TreeWellFormed ==
    btPc = "done" =>
        /\ \A n \in TreeNodes :
              /\ n # tree
              /\ Cardinality(ChildSlots(nodes, n)) = 1
              /\ \A s \in ChildSlots(nodes, n) : s[1] = nodes[n].Parent
        /\ Len(Descendants(nodes, tree)) =
              Len(SubtreeLayers(nodes, tree)) + Len(SubtreeGroups(nodes, tree))

\* a finished tree that holds a group nested in another group
C1_Witness ==
    /\ btPc = "done"
    /\ \E g \in TreeNodes :
          /\ nodes[g].Type = NodeTypeGroup
          /\ nodes[g].Parent # tree

\* C2: groups still open when the list ends are closed implicitly: each is
\* in its parent's Children, so every group and every layer built from the
\* list is reachable from the root.
C2_OpenGroupsClosedAtEnd ==
    btPc = "done" =>
        /\ \A i \in 2..Len(stack) :
              stack[i] \in Range(nodes[nodes[stack[i]].Parent].Children)
        /\ \A n \in 2..Len(nodes) : n \in TreeNodes

\* the order of every Children list follows the flat list
ChildrenInListOrder(ns) ==
    \A p \in DOMAIN ns : \A i, j \in DOMAIN ns[p].Children :
        i < j => ns[ns[p].Children[i]].Layer < ns[ns[p].Children[j]].Layer

\* what one iteration over the layer at btIdx does to the stack and the arena
C3_Step ==
    (btPc = "loop" /\ btIdx <= Len(lmLayers)) =>
        LET l == lmLayers[btIdx]
            top == stack[Len(stack)]
            new == Len(nodes) + 1
        IN /\ btIdx' = btIdx + 1
           /\ IF IsFolder(l) /\ IsFolderEnd(l)
              THEN IF Len(stack) = 1
                   THEN stack' = stack /\ nodes' = nodes
                   ELSE /\ stack' = SubSeq(stack, 1, Len(stack) - 1)
                        /\ nodes' = [nodes EXCEPT
                              ![stack[Len(stack) - 1]].Children = Append(@, top)]
              ELSE IF IsFolder(l)
              THEN /\ stack' = Append(stack, new)
                   /\ Len(nodes') = new
                   /\ nodes'[new].Type = NodeTypeGroup
                   /\ nodes'[new].Layer = btIdx
                   /\ nodes'[new].Children = <<>>
                   /\ \A n \in DOMAIN nodes : nodes'[n] = nodes[n]
              ELSE /\ stack' = stack
                   /\ Len(nodes') = new
                   /\ nodes'[new].Type = NodeTypeLayer
                   /\ nodes'[new].Layer = btIdx
                   /\ nodes'[top].Children = Append(nodes[top].Children, new)
                   /\ \A n \in DOMAIN nodes \ {top} : nodes'[n] = nodes[n]

\* C3: a folder-start marker opens a new group, a folder-end marker closes
\* the innermost open group and appends it to the children of the group
\* that is then innermost (ignored when only the root is open), any other
\* layer is appended to the children of the innermost open group; the stack
\* always keeps the root at its bottom and every Children list keeps the
\* relative order of the flat list.
C3_StackDiscipline ==
    /\ [](btPc \in {"loop", "done"} =>
            /\ Len(stack) >= 1
            /\ stack[1] = 1
            /\ nodes[1].Type = NodeTypeRoot
            /\ \A i \in 2..Len(stack) : nodes[stack[i]].Type = NodeTypeGroup
            /\ ChildrenInListOrder(nodes))
    /\ [][C3_Step]_vars

\* the root holds a closed group with a layer in it, followed by a layer
C3_Witness ==
    /\ btPc = "done"
    /\ \E i, j \in DOMAIN nodes[tree].Children :
          /\ i < j
          /\ nodes[nodes[tree].Children[i]].Type = NodeTypeGroup
          /\ nodes[nodes[tree].Children[i]].Children # <<>>
          /\ nodes[nodes[tree].Children[j]].Type = NodeTypeLayer

\* the children of g that have a non-zero width and a non-zero height
NonEmptySet(ns, g) ==
    { c \in Range(ns[g].Children) :
        ~(ns[c].Right - ns[c].Left = 0 \/ ns[c].Bottom - ns[c].Top = 0) }

IsEnvelope(ns, g) ==
    LET ne == NonEmptySet(ns, g)
    IN IF ne = {}
       THEN /\ ns[g].Left = 0 /\ ns[g].Top = 0
            /\ ns[g].Right = 0 /\ ns[g].Bottom = 0
       ELSE /\ ns[g].Left = SetMin({ ns[c].Left : c \in ne })
            /\ ns[g].Top = SetMin({ ns[c].Top : c \in ne })
            /\ ns[g].Right = SetMax({ ns[c].Right : c \in ne })
            /\ ns[g].Bottom = SetMax({ ns[c].Bottom : c \in ne })

\* C4: after tree building the rectangle of every group of the tree is the
\* min/max envelope of the rectangles of its non-empty children, a group
\* without a non-empty child (in particular a folder-start immediately
\* followed by its folder-end) has rectangle (0,0,0,0), and the root keeps
\* the document rectangle.
C4_GroupEnvelope ==
    btPc = "done" =>
        /\ \A g \in TreeNodes :
              nodes[g].Type = NodeTypeGroup =>
                 /\ IsEnvelope(nodes, g)
                 /\ (/\ nodes[g].Layer < Len(lmLayers)
                     /\ IsFolderEnd(lmLayers[nodes[g].Layer + 1]))
                    => (/\ nodes[g].Children = <<>>
                        /\ nodes[g].Right - nodes[g].Left = 0
                        /\ nodes[g].Bottom - nodes[g].Top = 0)
        /\ nodes[tree].Left = 0 /\ nodes[tree].Top = 0
        /\ nodes[tree].Right = doc[2] /\ nodes[tree].Bottom = doc[1]

\* a group of the tree with an empty and a non-empty child, whose own layer
\* rectangle differs from the envelope
C4_Witness ==
    /\ btPc = "done"
    /\ \E g \in TreeNodes :
          /\ nodes[g].Type = NodeTypeGroup
          /\ NonEmptySet(nodes, g) # {}
          /\ NonEmptySet(nodes, g) # Range(nodes[g].Children)
          /\ nodes[g].Right # lmLayers[nodes[g].Layer].Right

\* ------------------------------------------------------------------------
\* The document facade (psd.go)
\* ------------------------------------------------------------------------
notPsd == <<treeVars, rleVars, chanVars, resVars, descVars, rnVars, blVars, ptVars, cuVars, inVars, flVars, exVars, mkVars, cpVars, liVars>>

\* the fields of the PSD object and of its File, as one value
PsdState ==
    [cursor |-> cursor, header |-> header, resources |-> resources,
     layerMask |-> layerMask, image |-> image, nextId |-> nextId,
     readLog |-> readLog]

NoErr(st) == [st |-> st, err |-> FALSE]

\* Header.Parse (header.go:92-165): short read, bad signature, bad version
HeaderParseOK(f) ==
    IF f.truncated = StageHeader THEN FALSE
    ELSE IF f.sig # "8BPS" THEN FALSE
    ELSE IF f.version # 1 /\ f.version # 2 THEN FALSE
    ELSE TRUE

\* ResourceSection.Parse (resource.go:70-110): fails on a short read only
ResourcesParseOK(f) == f.truncated # StageResources

\* LayerMask.Parse (image.go:365-404): a short read, or a layer record whose
\* blend signature is not "8BIM" (layer.go:138) in a section of length > 0
LayerMaskParseOK(f) ==
    IF f.truncated = StageLayerMask THEN FALSE
    ELSE IF f.lmLength = 0 THEN TRUE
    ELSE f.blendSig = "8BIM"

\* Image.Parse (image.go:20-52): short read or compression other than 0, 1
ImageParseOK(f) ==
    IF f.truncated = StageImage THEN FALSE
    ELSE f.compression = 0 \/ f.compression = 1

\* One section parser runs on the stream.  At the start of its section the
\* bytes of the file decide the outcome; anywhere else it reads bytes of
\* another section and the outcome o.ok[k] is arbitrary.
ReadSection(st, k, ok, o) ==
    LET aligned == st.cursor = k - 1
        success == IF aligned THEN ok ELSE o.ok[k]
    IN [st |-> [st EXCEPT !.cursor = IF aligned /\ success THEN k ELSE Lost,
                          !.readLog = Append(@, k)],
        err |-> ~success]

\* the tail of parseHeader: `if err := header.Parse(); err != nil { return
\* err }; p.header = header`, on the outcome r of header.Parse
SetHeader(r) ==
    IF r.err THEN r
    ELSE NoErr([r.st EXCEPT !.header = r.st.nextId, !.nextId = @ + 1])

\* the tail of parseResources, on the outcome r of resources.Parse
SetResources(r) ==
    IF r.err THEN r
    ELSE NoErr([r.st EXCEPT !.resources = r.st.nextId, !.nextId = @ + 1])

\* the tail of parseLayerMask, on the outcome r of layerMask.Parse
SetLayerMask(r, hasTree) ==
    IF r.err THEN r
    ELSE NoErr([r.st EXCEPT
                  !.layerMask = [id |-> r.st.nextId, hasTree |-> hasTree],
                  !.nextId = @ + 1])

\* the tail of parseImage, on the outcome r of image.Parse
SetImage(r) ==
    IF r.err THEN r
    ELSE NoErr([r.st EXCEPT !.image = r.st.nextId, !.nextId = @ + 1])

\* PSD.parseHeader
parseHeader(st, o) ==
    IF st.header # NIL THEN NoErr(st)
    ELSE SetHeader(ReadSection(st, StageHeader, HeaderParseOK(file), o))

\* `if p.header == nil { if err := p.parseHeader(); err != nil {return err} }`
needHeader(st, o) ==
    IF st.header = NIL THEN parseHeader(st, o) ELSE NoErr(st)

\* parseResources from `resources := &ResourceSection{...}` on; h is the
\* outcome of the steps before it
readResources(h, o) ==
    IF h.err THEN h
    ELSE SetResources(ReadSection(h.st, StageResources,
                                  ResourcesParseOK(file), o))

\* faulty variant: the header is not parsed first when it is missing
parseResourcesMut(st, o) ==
    IF st.resources # NIL THEN NoErr(st)
    ELSE readResources(NoErr(st), o)
\* PSD.parseResources
parseResources(st, o) ==
    IF st.resources # NIL THEN NoErr(st)
    ELSE readResources(needHeader(st, o), o)

\* `if p.resources == nil { if err := p.parseResources(); ... }`
needResources(h, o) ==
    IF h.err THEN h
    ELSE IF h.st.resources = NIL THEN parseResources(h.st, o) ELSE h

\* parseLayerMask from `layerMask := &LayerMask{...}` on; the tree exists
\* when the section length is not 0
readLayerMask(s, o) ==
    IF s.err THEN s
    ELSE SetLayerMask(ReadSection(s.st, StageLayerMask,
                                  LayerMaskParseOK(file), o),
                      IF s.st.cursor = StageLayerMask - 1
                      THEN file.lmLength # 0 ELSE o.tree)

\* PSD.parseLayerMask
parseLayerMask(st, o) ==
    IF st.layerMask # NoLayerMask THEN NoErr(st)
    ELSE readLayerMask(needResources(needHeader(st, o), o), o)

\* `if p.layerMask == nil { if err := p.parseLayerMask(); ... }`
needLayerMask(s, o) ==
    IF s.err THEN s
    ELSE IF s.st.layerMask = NoLayerMask THEN parseLayerMask(s.st, o) ELSE s

\* parseImage from `image := &Image{...}` on
readImage(l, o) ==
    IF l.err THEN l
    ELSE SetImage(ReadSection(l.st, StageImage, ImageParseOK(file), o))

\* PSD.parseImage
parseImage(st, o) ==
    IF st.image # NIL THEN NoErr(st)
    ELSE readImage(needLayerMask(needResources(needHeader(st, o), o), o), o)

\* Parse returns the error of stage k
Failed(r, k) == [st |-> r.st, failed |-> k]

\* PSD.Parse after parseImage returned i
RunEnd(i) ==
    IF i.err THEN Failed(i, StageImage) ELSE [st |-> i.st, failed |-> 0]

\* faulty variant: the error of the layer-mask stage is dropped
RunImageMut(l, o) == RunEnd(parseImage(l.st, o))
\* PSD.Parse after parseLayerMask returned l
RunImage(l, o) ==
    IF l.err THEN Failed(l, StageLayerMask)
    ELSE RunEnd(parseImage(l.st, o))

\* PSD.Parse after parseResources returned s
RunLayerMask(s, o) ==
    IF s.err THEN Failed(s, StageResources)
    ELSE RunImage(parseLayerMask(s.st, o), o)

\* PSD.Parse after parseHeader returned h
RunResources(h, o) ==
    IF h.err THEN Failed(h, StageHeader)
    ELSE RunLayerMask(parseResources(h.st, o), o)

\* the four stages of PSD.Parse; failed is the stage that returned an error
ParseRun(st, o) == RunResources(parseHeader(st, o), o)

\* the stages whose section object is still nil
Missing ==
    {k \in StageHeader..StageImage :
        CASE k = StageHeader -> header = NIL
          [] k = StageResources -> resources = NIL
          [] k = StageLayerMask -> layerMask = NoLayerMask
          [] k = StageImage -> image = NIL}

\* The outcomes of reads that do not start at a section boundary matter only
\* when the cursor is already lost when the call starts.  A call runs the
\* missing stages in order and returns at the first error, so an outcome is
\* the number j of missing stages that succeed before one fails, and
\* whether a layer-mask section read that way has a length other than 0.
Oracles ==
    IF cursor = Lost
    THEN { [ok |-> [k \in StageHeader..StageImage |->
                      k \in Missing
                      /\ Cardinality({m \in Missing : m <= k}) <= j],
            tree |-> t] :
             j \in 0..Cardinality(Missing),
             t \in IF StageLayerMask \in Missing THEN BOOLEAN ELSE {FALSE} }
    ELSE {[ok |-> [k \in StageHeader..StageImage |-> FALSE], tree |-> FALSE]}

\* the fields of the PSD object after a call
Commit(st) ==
    /\ Len(st.readLog) <= MaxReads
    /\ cursor' = st.cursor
    /\ header' = st.header
    /\ resources' = st.resources
    /\ layerMask' = st.layerMask
    /\ image' = st.image
    /\ nextId' = st.nextId
    /\ readLog' = st.readLog

\* the history of an accessor call that returned ret
Returned(name, ret) == lastCall' = [name |-> name, ret |-> ret]

\* faulty variant: a failed Parse drops the sections it had parsed
ParseMut ==
    /\ ~fault
    /\ \E o \in Oracles :
          LET r == ParseRun(PsdState, o)
          IN /\ Commit(IF r.failed = 0 THEN r.st
                       ELSE [r.st EXCEPT !.header = NIL, !.resources = NIL])
             /\ parsed' = IF r.failed = 0 THEN TRUE ELSE parsed
             /\ parseFailed' = r.failed
             /\ lastCall' = [name |-> "Parse",
                             ret |-> IF r.failed = 0 THEN NilRet
                                     ELSE [kind |-> "error", id |-> r.failed]]
    /\ UNCHANGED <<file, fault>>
    /\ UNCHANGED notPsd
\* PSD.Parse
Parse ==
    /\ ~fault
    /\ \E o \in Oracles :
          LET r == ParseRun(PsdState, o)
          IN /\ Commit(r.st)
             /\ parsed' = IF r.failed = 0 THEN TRUE ELSE parsed
             /\ parseFailed' = r.failed
             /\ lastCall' = [name |-> "Parse",
                             ret |-> IF r.failed = 0 THEN NilRet
                                     ELSE [kind |-> "error", id |-> r.failed]]
    /\ UNCHANGED <<file, fault>>
    /\ UNCHANGED notPsd

\* PSD.Parsed
Parsed ==
    /\ ~fault
    /\ lastCall' = [name |-> "Parsed",
                    ret |-> [kind |-> IF parsed THEN "true" ELSE "false",
                             id |-> 0]]
    /\ UNCHANGED <<file, cursor, header, resources, layerMask, image, parsed,
                   nextId, fault, readLog, parseFailed>>
    /\ UNCHANGED notPsd

\* PSD.Header
Header ==
    /\ ~fault
    /\ \E o \in Oracles :
          LET r == IF header = NIL THEN parseHeader(PsdState, o)
                   ELSE NoErr(PsdState)
          IN /\ Commit(r.st)
             /\ Returned("Header",
                         IF r.st.header = NIL THEN NilRet
                         ELSE [kind |-> "Header", id |-> r.st.header])
    /\ UNCHANGED <<file, parsed, fault, parseFailed>>
    /\ UNCHANGED notPsd

\* PSD.Resources
Resources ==
    /\ ~fault
    /\ \E o \in Oracles :
          LET r == IF resources = NIL THEN parseResources(PsdState, o)
                   ELSE NoErr(PsdState)
          IN /\ Commit(r.st)
             /\ Returned("Resources",
                         IF r.st.resources = NIL THEN NilRet
                         ELSE [kind |-> "ResourceSection",
                               id |-> r.st.resources])
    /\ UNCHANGED <<file, parsed, fault, parseFailed>>
    /\ UNCHANGED notPsd

\* PSD.LayerMask
LayerMask ==
    /\ ~fault
    /\ \E o \in Oracles :
          LET r == IF layerMask = NoLayerMask
                   THEN parseLayerMask(PsdState, o) ELSE NoErr(PsdState)
          IN /\ Commit(r.st)
             /\ Returned("LayerMask",
                         IF r.st.layerMask = NoLayerMask THEN NilRet
                         ELSE [kind |-> "LayerMask",
                               id |-> r.st.layerMask.id])
    /\ UNCHANGED <<file, parsed, fault, parseFailed>>
    /\ UNCHANGED notPsd

\* PSD.Image
Image ==
    /\ ~fault
    /\ \E o \in Oracles :
          LET r == IF image = NIL THEN parseImage(PsdState, o)
                   ELSE NoErr(PsdState)
          IN /\ Commit(r.st)
             /\ Returned("Image",
                         IF r.st.image = NIL THEN NilRet
                         ELSE [kind |-> "Image", id |-> r.st.image])
    /\ UNCHANGED <<file, parsed, fault, parseFailed>>
    /\ UNCHANGED notPsd

\* PSD.LayerComps: the error of parseResources is dropped, and
\* ResourceSection.LayerComps returns an empty list without a look at its
\* receiver, nil or not
LayerComps ==
    /\ ~fault
    /\ \E o \in Oracles :
          LET r == IF resources = NIL THEN parseResources(PsdState, o)
                   ELSE NoErr(PsdState)
          IN /\ Commit(r.st)
             /\ Returned("LayerComps", [kind |-> "LayerComps", id |-> 0])
    /\ UNCHANGED <<file, parsed, fault, parseFailed>>
    /\ UNCHANGED notPsd

\* PSD.Slices: (nil, err) when parseResources fails, else
\* p.resources.ParseSlices(), which gives the default slices for the
\* resource sections of these files: they hold no resource 1050
Slices ==
    /\ ~fault
    /\ \E o \in Oracles :
          LET r == IF resources = NIL THEN parseResources(PsdState, o)
                   ELSE NoErr(PsdState)
          IN /\ Commit(r.st)
             /\ Returned("Slices",
                         IF r.st.resources = NIL THEN NilRet
                         ELSE [kind |-> "SlicesResource", id |-> 0])
    /\ UNCHANGED <<file, parsed, fault, parseFailed>>
    /\ UNCHANGED notPsd

\* PSD.Guides: (nil, err) when parseResources fails, else
\* p.resources.ParseGuides(), which gives an empty list of guides for the
\* resource sections of these files: they hold no resource 1032
Guides ==
    /\ ~fault
    /\ \E o \in Oracles :
          LET r == IF resources = NIL THEN parseResources(PsdState, o)
                   ELSE NoErr(PsdState)
          IN /\ Commit(r.st)
             /\ Returned("Guides",
                         IF r.st.resources = NIL THEN NilRet
                         ELSE [kind |-> "GuidesResource", id |-> 0])
    /\ UNCHANGED <<file, parsed, fault, parseFailed>>
    /\ UNCHANGED notPsd

\* PSD.Layers: p.layerMask.Layers dereferences p.layerMask
Layers ==
    /\ ~fault
    /\ \E o \in Oracles :
          LET r == IF layerMask = NoLayerMask
                   THEN parseLayerMask(PsdState, o) ELSE NoErr(PsdState)
          IN /\ Commit(r.st)
             /\ IF r.st.layerMask = NoLayerMask
                THEN /\ fault' = TRUE
                     /\ lastCall' = [name |-> "Layers",
                                     ret |-> [kind |-> "panic", id |-> 0]]
                ELSE /\ fault' = fault
                     /\ Returned("Layers", [kind |-> "Layers",
                                            id |-> r.st.layerMask.id])
    /\ UNCHANGED <<file, parsed, parseFailed>>
    /\ UNCHANGED notPsd

\* PSD.Tree: p.layerMask.Tree() dereferences p.layerMask
Tree ==
    /\ ~fault
    /\ \E o \in Oracles :
          LET r == IF layerMask = NoLayerMask
                   THEN parseLayerMask(PsdState, o) ELSE NoErr(PsdState)
          IN /\ Commit(r.st)
             /\ IF r.st.layerMask = NoLayerMask
                THEN /\ fault' = TRUE
                     /\ lastCall' = [name |-> "Tree",
                                     ret |-> [kind |-> "panic", id |-> 0]]
                ELSE /\ fault' = fault
                     /\ Returned("Tree",
                                 IF r.st.layerMask.hasTree
                                 THEN [kind |-> "Node",
                                       id |-> r.st.layerMask.id]
                                 ELSE NilRet)
    /\ UNCHANGED <<file, parsed, parseFailed>>
    /\ UNCHANGED notPsd

\* the defects of a file: each makes one stage of Parse fail
Defects(f) ==
    (IF f.sig # "8BPS" THEN 1 ELSE 0) + (IF f.version = 3 THEN 1 ELSE 0)
    + (IF f.truncated # 0 THEN 1 ELSE 0)
    + (IF f.blendSig # "8BIM" THEN 1 ELSE 0)
    + (IF f.compression = 2 THEN 1 ELSE 0)

\* the files New is given: good and bad signatures and versions, a stream
\* that ends inside any one section, a bad layer record, an empty layer and
\* mask section, and the image compression methods; up to two defects each
FileChoices ==
    { f \in [sig : {"8BPS", "8BPB"}, version : {1, 2, 3},
             truncated : 0..StageImage, blendSig : {"8BIM", "8B64"},
             lmLength : {0, 8}, compression : {0, 1, 2}] : Defects(f) <= 2 }

\* New (psd.go:21-36)
Init ==
    /\ file \in FileChoices
    /\ cursor = 0
    /\ header = NIL /\ resources = NIL /\ layerMask = NoLayerMask
    /\ image = NIL /\ parsed = FALSE /\ nextId = 1 /\ fault = FALSE
    /\ readLog = <<>>
    /\ lastCall = [name |-> "New", ret |-> NilRet]
    /\ parseFailed = 0
    /\ TreeIdle /\ RleIdle /\ ChanIdle /\ ResIdle /\ DescIdle /\ RenderIdle
    /\ BlendIdle
    /\ PathIdle
    /\ CursorIdle
    /\ InstIdle
    /\ FlatIdle
    /\ ExtraIdle
    /\ MaskIdle
    /\ ComposeIdle
    /\ SectionIdle

Next ==
    \/ Parse
    \/ Parsed
    \/ Header
    \/ Resources
    \/ LayerMask
    \/ Image
    \/ Layers
    \/ Tree
    \/ LayerComps
    \/ Slices
    \/ Guides

Spec == Init /\ [][Next]_vars

\* ------------------------------------------------------------------------
\* Properties of the document facade (checked under Spec)
\* ------------------------------------------------------------------------
Canonical == <<StageHeader, StageResources, StageLayerMask, StageImage>>

IsPrefix(s, t) == Len(s) <= Len(t) /\ s = SubSeq(t, 1, Len(s))

\* the section object of stage k is set
StageSet(k, h, r, l, i) ==
    CASE k = StageHeader -> h # NIL
      [] k = StageResources -> r # NIL
      [] k = StageLayerMask -> l # NoLayerMask
      [] k = StageImage -> i # NIL

\* what a step that is a call of Parse does
C7_ParseStep ==
    lastCall'.name = "Parse" =>
        LET new == SubSeq(readLog', Len(readLog) + 1, Len(readLog'))
            ret == lastCall'.ret
        IN /\ \A a, b \in DOMAIN new : a < b => new[a] < new[b]
           /\ \A a \in DOMAIN new :
                 ~StageSet(new[a], header, resources, layerMask, image)
           /\ ret.kind = "error" =>
                 /\ new # <<>> /\ new[Len(new)] = ret.id
                 /\ \A k \in StageHeader..StageImage :
                       StageSet(k, header', resources', layerMask', image')
                          <=> k < ret.id
                 /\ parsed' = parsed
           /\ ret.kind = "nil" =>
                 /\ \A k \in StageHeader..StageImage :
                       StageSet(k, header', resources', layerMask', image')
                 /\ parsed'
           /\ (readLog = <<>> /\ (file.sig # "8BPS" \/ file.version \notin {1, 2}))
                 => ret = [kind |-> "error", id |-> StageHeader]

\* C7: Parse runs the header, resource, layer-mask and image stages in that
\* order and stops at the first stage that fails (a bad signature or a
\* version other than 1 and 2 fails the first stage); Parsed() is false after
\* New and becomes true only when all four stages have succeeded.
C7_ParseStages ==
    /\ [](lastCall.name = "New" => ~parsed)
    /\ [](parsed => \A k \in StageHeader..StageImage :
                       StageSet(k, header, resources, layerMask, image))
    /\ [][C7_ParseStep]_vars
    /\ [][parsed' # parsed =>
            (parsed' /\ lastCall'.name = "Parse" /\ lastCall'.ret = NilRet)]_vars

\* Parse stopped at the layer-mask stage after the first two succeeded
C7_Witness ==
    /\ lastCall = [name |-> "Parse",
                   ret |-> [kind |-> "error", id |-> StageLayerMask]]
    /\ readLog = <<StageHeader, StageResources, StageLayerMask>>
    /\ header # NIL /\ resources # NIL /\ image = NIL /\ ~parsed

\* C8: after Parse failed in the layer-mask or image stage, Header() and
\* Resources() return the objects parsed before the failure without reading
\* the stream again, and Parsed() stays false.
C8_PartialResultKept ==
    /\ [](parseFailed \in {StageLayerMask, StageImage} =>
            (header # NIL /\ resources # NIL /\ ~parsed))
    /\ [][(parseFailed \in {StageLayerMask, StageImage}
             /\ lastCall'.name \in {"Header", "Resources"}) =>
            /\ readLog' = readLog /\ cursor' = cursor
            /\ header' = header /\ resources' = resources
            /\ ~parsed'
            /\ lastCall'.name = "Header" =>
                  lastCall'.ret = [kind |-> "Header", id |-> header]
            /\ lastCall'.name = "Resources" =>
                  lastCall'.ret = [kind |-> "ResourceSection",
                                   id |-> resources]]_vars

\* Resources() answered after Parse had failed in the image stage
C8_Witness ==
    /\ parseFailed = StageImage
    /\ lastCall = [name |-> "Resources",
                   ret |-> [kind |-> "ResourceSection", id |-> resources]]
    /\ resources # NIL /\ image = NIL /\ ~parsed

WellFormed(f) ==
    /\ f.sig = "8BPS" /\ f.version \in {1, 2} /\ f.truncated = 0
    /\ f.blendSig = "8BIM" /\ f.compression \in {0, 1}

\* what the accessor named by lastCall returns for the current objects
C9_Returns ==
    CASE lastCall.name = "Header" ->
            header # NIL /\ lastCall.ret = [kind |-> "Header", id |-> header]
      [] lastCall.name = "Resources" ->
            /\ resources # NIL
            /\ lastCall.ret = [kind |-> "ResourceSection", id |-> resources]
      [] lastCall.name = "LayerMask" ->
            /\ layerMask # NoLayerMask
            /\ lastCall.ret = [kind |-> "LayerMask", id |-> layerMask.id]
      [] lastCall.name = "Image" ->
            image # NIL /\ lastCall.ret = [kind |-> "Image", id |-> image]
      [] lastCall.name = "Layers" ->
            /\ layerMask # NoLayerMask
            /\ lastCall.ret = [kind |-> "Layers", id |-> layerMask.id]
      [] lastCall.name = "Tree" ->
            /\ layerMask # NoLayerMask
            /\ lastCall.ret = IF file.lmLength # 0
                              THEN [kind |-> "Node", id |-> layerMask.id]
                              ELSE NilRet
      [] lastCall.name \in {"LayerComps", "Slices", "Guides"} ->
            resources # NIL /\ lastCall.ret.kind # "nil"
      [] OTHER -> TRUE

\* C9: on a well-formed file, whatever the sequence of accessor calls, every
\* section is read at most once and only after the sections before it, and
\* every call returns the object the first call produced (the section
\* objects never change once set).
C9_LazyOnceInOrder ==
    /\ [](WellFormed(file) =>
            (IsPrefix(readLog, Canonical) /\ ~fault /\ C9_Returns))
    /\ [][WellFormed(file) =>
            /\ header # NIL => header' = header
            /\ resources # NIL => resources' = resources
            /\ layerMask # NoLayerMask => layerMask' = layerMask
            /\ image # NIL => image' = image]_vars

\* all four sections were read through accessors only, Tree() called last
C9_Witness ==
    /\ WellFormed(file) /\ ~parsed
    /\ readLog = Canonical
    /\ lastCall.name = "Tree" /\ lastCall.ret.kind = "Node"

\* ------------------------------------------------------------------------
\* The channel RLE decoder (layer.go: Layer.decompressRLE)
\* ------------------------------------------------------------------------
\* most scanlines in one channel of the inputs
MaxRows == 2

notRle == <<treeVars, psdVars, chanVars, resVars, descVars, rnVars, blVars, ptVars, cuVars, inVars, flVars, exVars, mkVars, cpVars, liVars>>

\* make([]T, n): n zero values
Zeros(n) == [i \in 1..n |-> 0]

\* the loop that reads the table of scanline byte counts (big-endian uint16)
RECURSIVE byteCountsLoop(_, _, _, _, _)
byteCountsLoop(data, height, i, offset, byteCounts) ==
    IF i < height /\ offset + 1 < Len(data)
    THEN byteCountsLoop(data, height, i + 1, offset + 2,
             [byteCounts EXCEPT
                 ![i + 1] = data[offset + 1] * 256 + data[offset + 2]])
    ELSE [byteCounts |-> byteCounts, offset |-> offset]

\* the copy loop of a literal run of `length` bytes
RECURSIVE literalLoop(_, _, _, _, _, _, _)
literalLoop(data, i, length, pos, endPos, offset, result) ==
    IF i < length /\ pos < endPos /\ offset < Len(data)
    THEN literalLoop(data, i + 1, length, pos + 1, endPos, offset + 1,
                     [result EXCEPT ![pos + 1] = data[offset + 1]])
    ELSE [pos |-> pos, offset |-> offset, result |-> result]

\* the fill loop of a repeat run of `length` copies of val
RECURSIVE repeatLoop(_, _, _, _, _, _, _)
repeatLoop(val, i, length, pos, endPos, offset, result) ==
    IF i < length /\ pos < endPos
    THEN repeatLoop(val, i + 1, length, pos + 1, endPos, offset,
                    [result EXCEPT ![pos + 1] = val])
    ELSE [pos |-> pos, offset |-> offset, result |-> result]

\* one control byte `length`, read at offset - 1, and the run it starts
controlByte(data, length, pos, endPos, offset, result) ==
    IF length < 128
    THEN literalLoop(data, 0, length + 1, pos, endPos, offset, result)
    ELSE IF length > 128
    THEN IF offset < Len(data)
         THEN repeatLoop(data[offset + 1], 0, 257 - length, pos, endPos,
                         offset + 1, result)
         ELSE [pos |-> pos, offset |-> offset, result |-> result]
    ELSE [pos |-> pos, offset |-> offset, result |-> result]

\* the loop that decodes the runs of one scanline
RECURSIVE scanlineLoop(_, _, _, _, _, _)
scanlineLoop(data, scanlineEnd, pos, endPos, offset, result) ==
    IF offset < scanlineEnd /\ pos < endPos /\ offset < Len(data)
    THEN LET c == controlByte(data, data[offset + 1], pos, endPos,
                              offset + 1, result)
         IN scanlineLoop(data, scanlineEnd, c.pos, endPos, c.offset, c.result)
    ELSE [pos |-> pos, offset |-> offset, result |-> result]

\* min(offset + byteCount, len(compressedData))
scanlineEndOf(data, offset, byteCount) ==
    IF offset + byteCount > Len(data) THEN Len(data) ELSE offset + byteCount

\* the loop over the scanlines
RECURSIVE rowLoop(_, _, _, _, _, _, _, _)
rowLoop(data, width, height, byteCounts, row, pos, offset, result) ==
    IF row >= height THEN result
    ELSE IF byteCounts[row + 1] = 0
    THEN rowLoop(data, width, height, byteCounts, row + 1, pos + width,
                 offset, result)
    ELSE LET endPos == pos + width
             s == scanlineLoop(data,
                               scanlineEndOf(data, offset,
                                             byteCounts[row + 1]),
                               pos, endPos, offset, result)
         IN rowLoop(data, width, height, byteCounts, row + 1,
                    IF s.pos < endPos THEN endPos ELSE s.pos,
                    s.offset, s.result)

\* Layer.decompressRLE for non-negative width and height
decompressRLE(data, width, height) ==
    IF width = 0 \/ height = 0 THEN <<>>
    ELSE LET t == byteCountsLoop(data, height, 0, 0, Zeros(height))
         IN rowLoop(data, width, height, t.byteCounts, 0, 0, t.offset,
                    Zeros(width * height))

\* the loop over the scanlines again, keeping for every scanline that is
\* decoded the index of the plane its output starts at, the offset its
\* decoding starts at and the offset it stops at
RECURSIVE rowOffsets(_, _, _, _, _, _, _, _, _)
rowOffsets(data, width, height, byteCounts, row, pos, offset, result, log) ==
    IF row >= height THEN log
    ELSE IF byteCounts[row + 1] = 0
    THEN rowOffsets(data, width, height, byteCounts, row + 1, pos + width,
                    offset, result, log)
    ELSE rowOffsets(data, width, height, byteCounts, row + 1, pos + width,
                    scanlineLoop(data,
                                 scanlineEndOf(data, offset,
                                               byteCounts[row + 1]),
                                 pos, pos + width, offset, result).offset,
                    scanlineLoop(data,
                                 scanlineEndOf(data, offset,
                                               byteCounts[row + 1]),
                                 pos, pos + width, offset, result).result,
                    Append(log,
                           [row |-> row, pos |-> pos, start |-> offset,
                            stop |-> scanlineLoop(data,
                                        scanlineEndOf(data, offset,
                                                      byteCounts[row + 1]),
                                        pos, pos + width, offset,
                                        result).offset]))

\* the offsets of the scanlines in a call of decompressRLE
scanlineOffsets(data, width, height) ==
    rowOffsets(data, width, height,
               byteCountsLoop(data, height, 0, 0, Zeros(height)).byteCounts,
               0, 0,
               byteCountsLoop(data, height, 0, 0, Zeros(height)).offset,
               Zeros(width * height), <<>>)

\* make([]uint16, height) and make([]byte, width*height) panic on a
\* negative length
rlePanics(width, height) ==
    width # 0 /\ height # 0 /\ (width < 0 \/ height < 0)

\* the call of decompressRLE
RleDecode ==
    /\ rlePc = "new"
    /\ IF rlePanics(rleW, rleH)
       THEN rlePc' = "panic" /\ rleOut' = rleOut
       ELSE rlePc' = "done" /\ rleOut' = decompressRLE(rleData, rleW, rleH)
    /\ UNCHANGED <<rleData, rleW, rleH>>
    /\ UNCHANGED notRle

\* encoded scanlines of the inputs: literal runs, repeat runs and no-ops that
\* decode to 1, 2 or 3 bytes, a run cut off by the end of the scanline, and
\* the empty scanline
RowChoices ==
    { <<0, 7>>, <<1, 7, 9>>, <<255, 7>>, <<0, 7, 0, 9>>, <<128, 1, 7, 9>>,
      <<1, 7, 9, 128>>, <<1, 7, 9, 128, 128>>, <<0, 9, 128, 0, 7>>,
      <<254, 9>>, <<2, 7, 9, 7>>, <<0, 9, 255, 7>>, <<255>>, <<1, 7>>,
      <<>> }

RECURSIVE Flatten(_)
Flatten(ss) == IF ss = <<>> THEN <<>> ELSE Head(ss) \o Flatten(Tail(ss))

\* compressedData for the scanlines rows: the byte-count table, where
\* scanline r is declared extra[r] bytes longer than it is, then the
\* scanlines, with the last cut bytes missing
RleStream(rows, extra, cut) ==
    LET table == Flatten([r \in DOMAIN rows |->
                            <<(Len(rows[r]) + extra[r]) \div 256,
                              (Len(rows[r]) + extra[r]) % 256>>])
        all == table \o Flatten(rows)
    IN SubSeq(all, 1, IF cut > Len(all) THEN 0 ELSE Len(all) - cut)

RleInit ==
    /\ rleW \in -1..3
    /\ rleH \in -1..MaxRows
    /\ \E rows \in [1..(IF rleH < 0 THEN 0 ELSE rleH) -> RowChoices],
          extra \in [1..(IF rleH < 0 THEN 0 ELSE rleH) -> {0, 1}],
          cut \in 0..1 :
          rleData = RleStream(rows, extra, cut)
    /\ rleOut = <<>>
    /\ rlePc = "new"

InitRLE == RleInit /\ TreeIdle /\ PsdIdle /\ ChanIdle /\ ResIdle /\ DescIdle /\ RenderIdle
    /\ BlendIdle
    /\ PathIdle
    /\ CursorIdle
    /\ InstIdle
    /\ FlatIdle
    /\ ExtraIdle
    /\ MaskIdle
    /\ ComposeIdle
    /\ SectionIdle

NextRLE == RleDecode

SpecRLE == InitRLE /\ [][NextRLE]_vars

\* ---- the scanlines of the layer channel decoder ----
\* the byte counts the table of the stream declares
DeclaredCounts ==
    byteCountsLoop(rleData, rleH, 0, 0, Zeros(rleH)).byteCounts

RECURSIVE SumTo(_, _)
SumTo(s, n) == IF n = 0 THEN 0 ELSE s[n] + SumTo(s, n - 1)

\* the offset of the first byte of scanline r: after the table and the
\* declared bytes of the scanlines before it
DeclaredStart(r) == 2 * rleH + SumTo(DeclaredCounts, r)

\* a stream that holds its whole table and every byte its table declares
WholeStream ==
    /\ rleW > 0 /\ rleH > 0
    /\ Len(rleData) = 2 * rleH + SumTo(DeclaredCounts, rleH)

\* C22: in a call of decompressRLE on a whole stream the decoding of every
\* scanline starts at the first byte after the declared bytes of the
\* scanlines before it and stops within its own declared bytes.
C22_ScanlinesIndependent ==
    (rlePc = "done" /\ WholeStream) =>
        \A k \in DOMAIN scanlineOffsets(rleData, rleW, rleH) :
            /\ scanlineOffsets(rleData, rleW, rleH)[k].start
                  = DeclaredStart(scanlineOffsets(rleData, rleW, rleH)[k].row)
            /\ scanlineOffsets(rleData, rleW, rleH)[k].stop
                  <= DeclaredStart(
                        scanlineOffsets(rleData, rleW, rleH)[k].row + 1)

\* what holds of C22: the first scanline that is decoded starts at its
\* declared offset
C22_FirstScanline ==
    (rlePc = "done" /\ WholeStream
        /\ scanlineOffsets(rleData, rleW, rleH) # <<>>) =>
        scanlineOffsets(rleData, rleW, rleH)[1].start
            = DeclaredStart(scanlineOffsets(rleData, rleW, rleH)[1].row)

\* ------------------------------------------------------------------------
\* Properties of the RLE decoder (checked under SpecRLE)
\* ------------------------------------------------------------------------
\* the PackBits reading of one scanline on its own, from index i on: a
\* control byte n < 128 copies the next n + 1 bytes, n > 128 repeats the
\* next byte 257 - n times, n = 128 produces nothing
RECURSIVE PackBits(_, _, _)
PackBits(row, i, out) ==
    IF i > Len(row) THEN [ok |-> TRUE, out |-> out]
    ELSE LET n == row[i]
         IN IF n < 128
            THEN IF i + n + 1 > Len(row) THEN [ok |-> FALSE, out |-> out]
                 ELSE PackBits(row, i + n + 2,
                               out \o SubSeq(row, i + 1, i + n + 1))
            ELSE IF n > 128
            THEN IF i + 1 > Len(row) THEN [ok |-> FALSE, out |-> out]
                 ELSE PackBits(row, i + 2,
                               out \o [k \in 1..(257 - n) |-> row[i + 1]])
            ELSE PackBits(row, i + 1, out)

\* the declared byte count of scanline r (0-based) in the table of data
DeclaredCount(data, r) == data[2 * r + 1] * 256 + data[2 * r + 2]

RECURSIVE SumCounts(_, _)
SumCounts(data, r) ==
    IF r = 0 THEN 0 ELSE SumCounts(data, r - 1) + DeclaredCount(data, r - 1)

\* the bytes of scanline r as the table declares them
ScanlineBytes(data, h, r) ==
    SubSeq(data, 2 * h + SumCounts(data, r) + 1,
           2 * h + SumCounts(data, r + 1))

\* data is a valid encoding of h scanlines of w pixels: the table is whole,
\* the scanlines fill the rest of data, and each decodes to exactly w bytes
ValidEncoding(data, w, h) ==
    /\ Len(data) >= 2 * h
    /\ 2 * h + SumCounts(data, h) = Len(data)
    /\ \A r \in 0..(h - 1) :
          LET d == PackBits(ScanlineBytes(data, h, r), 1, <<>>)
          IN d.ok /\ Len(d.out) = w

\* the plane a valid encoding stands for
PlaneOf(data, w, h) ==
    Flatten([r \in 1..h |->
               PackBits(ScanlineBytes(data, h, r - 1), 1, <<>>).out])

\* C6: for a layer of width w and height h, RLE decoding of a channel yields
\* a plane of exactly w*h bytes; for a valid encoding the plane holds what
\* the control bytes stand for: n < 128 copies the next n + 1 bytes, n > 128
\* repeats the next byte 257 - n times, n = 128 produces no output.
C6_RLEDecoding ==
    (rlePc = "done" /\ rleW >= 0 /\ rleH >= 0) =>
        /\ Len(rleOut) = rleW * rleH
        /\ ValidEncoding(rleData, rleW, rleH) =>
              rleOut = PlaneOf(rleData, rleW, rleH)

\* the size part of C6 alone
C6_PlaneSize ==
    (rlePc = "done" /\ rleW >= 0 /\ rleH >= 0) =>
        Len(rleOut) = rleW * rleH

\* ------------------------------------------------------------------------
\* The channel reader (layer.go: Layer.parseChannelData)
\* ------------------------------------------------------------------------
\* most channels of the layer, largest declared channel length, largest file
MaxChannels == 3
MaxChanLen == 4
MaxFileLen == 8

notChan == <<treeVars, psdVars, rleVars, resVars, descVars, rnVars, blVars, ptVars, cuVars, inVars, flVars, exVars, mkVars, cpVars, liVars>>

\* File.Read (io.ReadFull): n >= 1 bytes at pos of a file of fileLen bytes; a
\* short read is an error and leaves the cursor at the end of the file
FileRead(pos, n, fileLen) ==
    IF pos + n <= fileLen THEN [pos |-> pos + n, err |-> FALSE]
    ELSE [pos |-> IF pos < fileLen THEN fileLen ELSE pos, err |-> TRUE]

\* File.Skip: a relative seek, also past the end of the file
FileSkip(pos, n) == [pos |-> pos + n, err |-> FALSE]

\* File.Seek(target, 0)
FileSeek(target) == [pos |-> target, err |-> FALSE]

\* faulty variant: a channel of 1 or 2 bytes is passed over without a skip
shortChannelMut(start, length) == [pos |-> start, pc |-> "loop"]
\* a channel with chanInfo.Length <= 2
shortChannel(start, length) ==
    IF length > 0
    THEN [pos |-> FileSkip(start, length).pos, pc |-> "loop"]
    ELSE [pos |-> start, pc |-> "loop"]

\* the outcome of reading a payload: a failed read ends parseChannelData
readOutcome(r) ==
    [pos |-> r.pos, pc |-> IF r.err THEN "error" ELSE "loop"]

\* the RLE case after the payload was read: decompressRLE runs on it
rleOutcome(r, dims) ==
    IF r.err THEN readOutcome(r)
    ELSE [pos |-> r.pos,
          pc |-> IF rlePanics(dims[1], dims[2]) THEN "panic" ELSE "loop"]

\* the switch on the compression method; c is the outcome of ReadUint16
payload(c, compression, dataLength, dims, fileLen) ==
    IF c.err THEN readOutcome(c)
    ELSE IF compression = 0
    THEN readOutcome(FileRead(c.pos, dataLength, fileLen))
    ELSE IF compression = 1
    THEN rleOutcome(FileRead(c.pos, dataLength, fileLen), dims)
    ELSE readOutcome(FileSkip(c.pos, dataLength))

\* the corrective seek after the switch
resync(p, expectedPos) ==
    IF p.pc # "loop" THEN p
    ELSE IF p.pos # expectedPos
    THEN [pos |-> FileSeek(expectedPos).pos, pc |-> "loop"]
    ELSE p

\* one channel of the loop; compression is what the first two bytes hold
channel(start, length, compression, dims, fileLen) ==
    IF length <= 2 THEN shortChannel(start, length)
    ELSE resync(payload(FileRead(start, 2, fileLen), compression,
                        length - 2, dims, fileLen),
                start + length)

\* one iteration of the loop over l.ChannelInfo
ParseChannel ==
    /\ chPc = "loop"
    /\ chIdx < Len(chInfo)
    /\ \E compression \in
            IF chInfo[chIdx + 1] > 2 /\ chPos + 2 <= chFileLen
            THEN {0, 1, 2} ELSE {-1} :
          LET out == channel(chPos, chInfo[chIdx + 1], compression, chDims,
                             chFileLen)
          IN /\ chPos' = out.pos
             /\ chPc' = out.pc
             /\ chIdx' = IF out.pc = "loop" THEN chIdx + 1 ELSE chIdx
             /\ chComp' = compression
    /\ UNCHANGED <<chInfo, chDims, chFileLen>>
    /\ UNCHANGED notChan

\* the loop is over: parseChannelData returns nil
ChannelsDone ==
    /\ chPc = "loop"
    /\ chIdx = Len(chInfo)
    /\ chPc' = "done"
    /\ UNCHANGED <<chInfo, chDims, chFileLen, chPos, chIdx, chComp>>
    /\ UNCHANGED notChan

\* the layers handed to parseChannelData: up to MaxChannels channels with
\* any declared lengths, the layer rectangle, and files of any size
ChanInit ==
    /\ \E n \in 0..MaxChannels : chInfo \in [1..n -> 0..MaxChanLen]
    /\ chDims \in {<<2, 2>>, <<0, 2>>, <<-1, 2>>}
    /\ chFileLen \in 0..MaxFileLen
    /\ chPos = 0
    /\ chIdx = 0
    /\ chComp = -1
    /\ chPc = "loop"

InitChan == ChanInit /\ TreeIdle /\ PsdIdle /\ RleIdle /\ ResIdle /\ DescIdle /\ RenderIdle
    /\ BlendIdle
    /\ PathIdle
    /\ CursorIdle
    /\ InstIdle
    /\ FlatIdle
    /\ ExtraIdle
    /\ MaskIdle
    /\ ComposeIdle
    /\ SectionIdle

NextChan ==
    \/ ParseChannel
    \/ ChannelsDone

SpecChan == InitChan /\ [][NextChan]_vars

\* ------------------------------------------------------------------------
\* Properties of the channel reader (checked under SpecChan)
\* ------------------------------------------------------------------------
\* C5: after each channel of a layer has been decoded without an I/O error,
\* the cursor is at the offset at which the channel started plus the
\* channel's declared length, whatever the compression method and whatever
\* the codec consumed or produced.
C5_CursorAfterChannel ==
    [][chIdx' = chIdx + 1 =>
         (chPc' = "loop" /\ chPos' = chPos + chInfo[chIdx + 1])]_vars

\* two channels were decoded, the last of an unknown compression method
\* whose declared length reaches past the end of the file
C5_Witness ==
    /\ chPc = "done" /\ chIdx = Len(chInfo) /\ chIdx >= 2
    /\ chComp = 2 /\ chPos > chFileLen
    /\ chInfo[chIdx] > 2

\* ------------------------------------------------------------------------
\* The resource section (resource.go: ResourceSection.Parse)
\* ------------------------------------------------------------------------
\* most resource blocks in the stream, largest declared section length
MaxBlocks == 2
MaxResLen == 28

notRes == <<treeVars, psdVars, rleVars, chanVars, descVars, rnVars, blVars, ptVars, cuVars, inVars, flVars, exVars, mkVars, cpVars, liVars>>

\* make(map[uint16]*Resource)
EmptyMap == [id \in {} |-> 0]

\* a read of n bytes unless an earlier step of the function failed
thenRead(r, n, fileLen) == IF r.err THEN r ELSE FileRead(r.pos, n, fileLen)

\* a skip of n bytes unless an earlier step of the function failed
thenSkip(r, n) == IF r.err THEN r ELSE FileSkip(r.pos, n)

\* the name of a block, when nameLen > 0
readName(r, nameLen, fileLen) ==
    IF nameLen > 0 THEN thenRead(r, nameLen, fileLen) ELSE r

\* the pad byte of the Pascal string; nameLen + 1 is computed in a byte
padName(r, nameLen) ==
    IF ((nameLen + 1) % 256) % 2 # 0 THEN thenSkip(r, 1) ELSE r

\* the pad byte of odd-sized data
padData(r, dataSize) == IF dataSize % 2 # 0 THEN thenSkip(r, 1) ELSE r

\* the data of a block, when dataSize > 0
readData(r, dataSize, fileLen) ==
    IF dataSize > 0 THEN padData(thenRead(r, dataSize, fileLen), dataSize)
    ELSE r

\* ResourceSection.parseResource on the block b at pos: type (4 bytes), id
\* (2), name length (1), name, pad, data size (4), data, pad
parseResource(pos, b, fileLen) ==
    readData(
        thenRead(
            padName(
                readName(
                    thenRead(thenRead(FileRead(pos, 4, fileLen), 2, fileLen),
                             1, fileLen),
                    b.nameLen, fileLen),
                b.nameLen),
            4, fileLen),
        b.dataSize, fileLen)

\* the bytes a block occupies in the stream
BlockSize(b) ==
    4 + 2 + 1 + b.nameLen + (IF (b.nameLen + 1) % 2 # 0 THEN 1 ELSE 0)
    + 4 + b.dataSize + (IF b.dataSize % 2 # 0 THEN 1 ELSE 0)

RECURSIVE BlocksSize(_)
BlocksSize(bs) ==
    IF bs = <<>> THEN 0 ELSE BlockSize(Head(bs)) + BlocksSize(Tail(bs))

\* size of the stream: the length field, the blocks, less the missing bytes
ResFileLen ==
    IF 4 + BlocksSize(resBlocks) >= resCut
    THEN 4 + BlocksSize(resBlocks) - resCut ELSE 0

\* the block at the cursor; past the last block the stream has ended and
\* the content does not matter, every read fails
BlockAtCursor ==
    IF resNext <= Len(resBlocks) THEN resBlocks[resNext]
    ELSE [id |-> 0, nameLen |-> 0, dataSize |-> 0]

\* r.Resources[resource.ID] = resource
StoreResource(map, id, block) ==
    [i \in DOMAIN map \cup {id} |-> IF i = id THEN block ELSE map[i]]

\* ResourceSection.Parse up to the loop: the length field and the empty map
ResParseStart ==
    /\ resPc = "new"
    /\ LET r == FileRead(resPos, 4, ResFileLen)
       IN /\ resPos' = r.pos
          /\ resPc' = IF r.err THEN "error"
                      ELSE IF resLength = 0 THEN "done" ELSE "loop"
          /\ resMap' = IF r.err THEN resMap ELSE EmptyMap
    /\ UNCHANGED <<resLength, resBlocks, resCut, resNext>>
    /\ UNCHANGED notRes

\* one iteration of the loop, and the test that ends the loop or not
ResParseBlock ==
    /\ resPc = "loop"
    /\ LET r == parseResource(resPos, BlockAtCursor, ResFileLen)
       IN /\ resPos' = r.pos
          /\ resPc' = IF r.err THEN "error"
                      ELSE IF r.pos >= 4 + resLength THEN "done" ELSE "loop"
          /\ resMap' = IF r.err THEN resMap
                       ELSE StoreResource(resMap, BlockAtCursor.id, resNext)
          /\ resNext' = IF r.err THEN resNext ELSE resNext + 1
    /\ UNCHANGED <<resLength, resBlocks, resCut>>
    /\ UNCHANGED notRes

\* the blocks of the inputs: two ids, names with and without a pad byte,
\* no data, odd-sized and even-sized data
BlockChoices == [id : {1032, 1050}, nameLen : {0, 1}, dataSize : {0, 1, 2}]

ResInit ==
    /\ resLength \in 0..MaxResLen
    /\ \E n \in 0..MaxBlocks : resBlocks \in [1..n -> BlockChoices]
    /\ resCut \in 0..1
    /\ resPos = 0
    /\ resMap = EmptyMap
    /\ resNext = 1
    /\ resPc = "new"

InitRes == ResInit /\ TreeIdle /\ PsdIdle /\ RleIdle /\ ChanIdle /\ DescIdle /\ RenderIdle
    /\ BlendIdle
    /\ PathIdle
    /\ CursorIdle
    /\ InstIdle
    /\ FlatIdle
    /\ ExtraIdle
    /\ MaskIdle
    /\ ComposeIdle
    /\ SectionIdle

NextRes ==
    \/ ResParseStart
    \/ ResParseBlock

SpecRes == InitRes /\ [][NextRes]_vars

\* ------------------------------------------------------------------------
\* Properties of the resource section (checked under SpecRes)
\* ------------------------------------------------------------------------
\* the blocks Parse went through
ParsedBlocks == 1..(resNext - 1)

\* the map holds, for every id present, the last block that carried it
LastBlockWins ==
    /\ DOMAIN resMap = {resBlocks[k].id : k \in ParsedBlocks}
    /\ \A id \in DOMAIN resMap :
          /\ resMap[id] \in ParsedBlocks
          /\ resBlocks[resMap[id]].id = id
          /\ \A k \in ParsedBlocks : resBlocks[k].id = id => k <= resMap[id]

\* C10: a resource section of declared length L > 0 is parsed block by block
\* until the cursor reaches (section start + L), and parsing stops with the
\* cursor at exactly that offset; the map holds for every id present the last
\* block that carried it; a section of length 0 yields an empty map.
C10_ResourceSection ==
    resPc = "done" =>
        IF resLength = 0 THEN resMap = EmptyMap /\ resPos = 4
        ELSE resPos = 4 + resLength /\ LastBlockWins

\* the parts of C10 other than the final offset
C10_MapOnly ==
    resPc = "done" =>
        IF resLength = 0 THEN resMap = EmptyMap /\ resPos = 4
        ELSE resPos >= 4 + resLength /\ LastBlockWins

\* ------------------------------------------------------------------------
\* The descriptor parser (descriptor.go)
\* ------------------------------------------------------------------------
\* A call on the reader returns [ok, pos, val]: whether it succeeded, the
\* offset of the reader afterwards, and the value.  Go strings are
\* sequences of character codes, maps are functions, and every other value
\* is a record [t, v] of its Go type and content.
notDesc == <<treeVars, psdVars, rleVars, chanVars, resVars, rnVars, blVars, ptVars, cuVars, inVars, flVars, exVars, mkVars, cpVars, liVars>>

\* a returned error; the value returned with it is nil
DescFail(pos) == [ok |-> FALSE, pos |-> pos, val |-> NilValue]

DescOk(pos, val) == [ok |-> TRUE, pos |-> pos, val |-> val]

\* binary.BigEndian.Uint16 / Uint32 of the bytes at offset pos
BEUint16(data, pos) == data[pos + 1] * 256 + data[pos + 2]

BEUint32(data, pos) ==
    ((data[pos + 1] * 256 + data[pos + 2]) * 256 + data[pos + 3]) * 256
    + data[pos + 4]

\* the int32 that the four bytes at offset pos hold (two's complement)
BEInt32(data, pos) ==
    (((IF data[pos + 1] >= 128 THEN data[pos + 1] - 256 ELSE data[pos + 1])
      * 256 + data[pos + 2]) * 256 + data[pos + 3]) * 256 + data[pos + 4]

\* io.ReadFull(d.reader, buf) with len(buf) = n
readFull(data, pos, n) ==
    IF n = 0 THEN DescOk(pos, <<>>)
    ELSE IF pos + n <= Len(data)
    THEN DescOk(pos + n, SubSeq(data, pos + 1, pos + n))
    ELSE DescFail(Len(data))

\* binary.Read of a uint32
readUint32(data, pos) ==
    IF pos + 4 <= Len(data) THEN DescOk(pos + 4, BEUint32(data, pos))
    ELSE DescFail(Len(data))

\* parseDouble, parseLargeInt and the float32 of parseUnitFloat: a value of
\* n bytes read by binary.Read, kept as the bytes that hold it
readFixed(data, pos, n, type) ==
    IF pos + n <= Len(data)
    THEN DescOk(pos + n, [t |-> type, v |-> SubSeq(data, pos + 1, pos + n)])
    ELSE DescFail(Len(data))

\* parseID after the length was read
idBytes(data, l) ==
    IF ~l.ok THEN l
    ELSE IF l.val = 0 THEN readFull(data, l.pos, 4)
    ELSE readFull(data, l.pos, l.val)

\* DescriptorParser.parseID
parseID(data, pos) == idBytes(data, readUint32(data, pos))

\* string(runes) of one UTF-16 code unit taken as a rune: a surrogate is not
\* a valid rune and becomes U+FFFD
runeOfUnit(u) == IF u >= 55296 /\ u <= 57343 THEN 65533 ELSE u

\* readUnicodeString after the 2 * length bytes were read into b
unicodeRunes(b, length) ==
    IF ~b.ok THEN b
    ELSE DescOk(b.pos, [i \in 1..length |->
                          runeOfUnit(BEUint16(b.val, 2 * (i - 1)))])

\* DescriptorParser.readUnicodeString (lengths stay far below the 2^31 at
\* which length * 2 wraps around in a uint32)
readUnicodeString(data, pos) ==
    LET l == readUint32(data, pos)
    IN IF ~l.ok THEN l
       ELSE IF l.val = 0 THEN DescOk(l.pos, <<>>)
       ELSE unicodeRunes(readFull(data, l.pos, l.val * 2), l.val)

\* parseClass after the name was read
classID(data, n) ==
    IF ~n.ok THEN n
    ELSE LET i == parseID(data, n.pos)
         IN IF ~i.ok THEN i
            ELSE DescOk(i.pos, [t |-> "class",
                                v |-> [name |-> n.val, id |-> i.val]])

\* DescriptorParser.parseClass
parseClass(data, pos) == classID(data, readUnicodeString(data, pos))

\* DescriptorParser.parseBoolean
parseBoolean(data, pos) ==
    IF pos + 1 <= Len(data)
    THEN DescOk(pos + 1, [t |-> "bool", v |-> data[pos + 1] # 0])
    ELSE DescFail(Len(data))

\* DescriptorParser.parseInt
parseInt(data, pos) ==
    IF pos + 4 <= Len(data)
    THEN DescOk(pos + 4, [t |-> "int32", v |-> BEInt32(data, pos)])
    ELSE DescFail(Len(data))

\* the type id and the value id of parseEnum and parseEnumReference, added
\* to the fields in v
enumIDs(data, pos, type, v) ==
    LET ty == parseID(data, pos)
    IN IF ~ty.ok THEN ty
       ELSE LET i == parseID(data, ty.pos)
            IN IF ~i.ok THEN i
               ELSE DescOk(i.pos,
                           [t |-> type,
                            v |-> [class |-> v, type |-> ty.val,
                                   value |-> i.val]])

\* DescriptorParser.parseEnum
parseEnum(data, pos) == enumIDs(data, pos, "enum", NilValue)

\* DescriptorParser.parseAlias and parseRawData: a length, then the bytes
parseRawData(data, pos) ==
    LET l == readUint32(data, pos)
    IN IF ~l.ok THEN l
       ELSE IF l.pos + l.val <= Len(data)
       THEN DescOk(l.pos + l.val,
                   [t |-> "bytes",
                    v |-> SubSeq(data, l.pos + 1, l.pos + l.val)])
       ELSE DescFail(Len(data))

\* unitTypes: the names of the unit ids
unitTypes ==
    (<<35, 65, 110, 103>> :> "Angle")
    @@ (<<35, 82, 115, 108>> :> "Density")
    @@ (<<35, 82, 108, 116>> :> "Distance")
    @@ (<<35, 78, 110, 101>> :> "None")
    @@ (<<35, 80, 114, 99>> :> "Percent")
    @@ (<<35, 80, 120, 108>> :> "Pixels")
    @@ (<<35, 77, 108, 109>> :> "Millimeters")
    @@ (<<35, 80, 110, 116>> :> "Points")

\* parseUnitDouble (n = 8) and parseUnitFloat (n = 4) after the unit id
unitValue(data, u, n, type) ==
    IF ~u.ok THEN u
    ELSE LET x == readFixed(data, u.pos, n, type)
         IN IF ~x.ok THEN x
            ELSE DescOk(x.pos,
                        [t |-> "unit",
                         v |-> [id |-> u.val,
                                unit |-> IF u.val \in DOMAIN unitTypes
                                         THEN unitTypes[u.val]
                                         ELSE "Unknown",
                                value |-> x.val]])

\* the type tags of the switches of parseItem and parseReference: the bytes
\* of every tag and the string they are compared with
TagNames ==
    (<<98, 111, 111, 108>> :> "bool")
    @@ (<<116, 121, 112, 101>> :> "type")
    @@ (<<71, 108, 98, 67>> :> "GlbC")
    @@ (<<79, 98, 106, 99>> :> "Objc")
    @@ (<<71, 108, 98, 79>> :> "GlbO")
    @@ (<<100, 111, 117, 98>> :> "doub")
    @@ (<<101, 110, 117, 109>> :> "enum")
    @@ (<<97, 108, 105, 115>> :> "alis")
    @@ (<<108, 111, 110, 103>> :> "long")
    @@ (<<99, 111, 109, 112>> :> "comp")
    @@ (<<86, 108, 76, 115>> :> "VlLs")
    @@ (<<79, 98, 65, 114>> :> "ObAr")
    @@ (<<116, 100, 116, 97>> :> "tdta")
    @@ (<<111, 98, 106, 32>> :> "obj ")
    @@ (<<84, 69, 88, 84>> :> "TEXT")
    @@ (<<85, 110, 116, 70>> :> "UntF")
    @@ (<<85, 110, 70, 108>> :> "UnFl")
    @@ (<<112, 114, 111, 112>> :> "prop")
    @@ (<<67, 108, 115, 115>> :> "Clss")
    @@ (<<69, 110, 109, 114>> :> "Enmr")
    @@ (<<73, 100, 110, 116>> :> "Idnt")
    @@ (<<105, 110, 100, 120>> :> "indx")
    @@ (<<110, 97, 109, 101>> :> "name")
    @@ (<<114, 101, 108, 101>> :> "rele")

\* string(typeBytes) after the four bytes of a type tag were read; a tag
\* that no case of the switches names is kept as "?"
readTag(b) ==
    IF ~b.ok THEN b
    ELSE DescOk(b.pos, IF b.val \in DOMAIN TagNames
                       THEN TagNames[b.val] ELSE "?")

\* the key "class" of the map that Parse returns
ClassKey == <<99, 108, 97, 115, 115>>

\* result[key] = value
mapStore(map, key, value) ==
    [k \in DOMAIN map \cup {key} |-> IF k = key THEN value ELSE map[k]]

\* a Go string returned as an interface{} value
stringValue(r) ==
    IF ~r.ok THEN r ELSE DescOk(r.pos, [t |-> "string", v |-> r.val])

\* parseProperty after the class was read
propertyID(data, c) ==
    IF ~c.ok THEN c
    ELSE LET i == parseID(data, c.pos)
         IN IF ~i.ok THEN i
            ELSE DescOk(i.pos, [t |-> "property",
                                v |-> [class |-> c.val, id |-> i.val]])

\* parseEnumReference after the class was read
enumRefIDs(data, c) ==
    IF ~c.ok THEN c ELSE enumIDs(data, c.pos, "enumref", c.val)

\* the switch of parseReference on the type tag ty that was read
refValue(data, ty) ==
    IF ty.val = "prop" THEN propertyID(data, parseClass(data, ty.pos))
    ELSE IF ty.val = "Clss" THEN parseClass(data, ty.pos)
    ELSE IF ty.val = "Enmr" THEN enumRefIDs(data, parseClass(data, ty.pos))
    ELSE IF ty.val \in {"Idnt", "indx", "rele"} THEN parseInt(data, ty.pos)
    ELSE IF ty.val = "name"
    THEN stringValue(readUnicodeString(data, ty.pos))
    ELSE DescFail(ty.pos)

\* items[i] = {"type": refType, "value": value} for the value x
refItem(ty, x) ==
    IF ~x.ok THEN x
    ELSE DescOk(x.pos, [t |-> "ref", v |-> [type |-> ty.val, value |-> x.val]])

\* one pass of the loop of parseReference after the type tag was read
refRead(data, ty) ==
    IF ~ty.ok THEN ty ELSE refItem(ty, refValue(data, ty))

\* the loop of parseReference
RECURSIVE refLoop(_, _, _, _, _)
refLoop(data, pos, i, numItems, items) ==
    IF i >= numItems THEN DescOk(pos, [t |-> "reference", v |-> items])
    ELSE LET x == refRead(data, readTag(readFull(data, pos, 4)))
         IN IF ~x.ok THEN x
            ELSE refLoop(data, x.pos, i + 1, numItems, Append(items, x.val))

\* DescriptorParser.parseReference
parseReference(data, pos) ==
    LET n == readUint32(data, pos)
    IN IF ~n.ok THEN n ELSE refLoop(data, n.pos, 0, n.val, <<>>)

RECURSIVE DescParse(_, _)
RECURSIVE parseList(_, _)

\* faulty variant: an unknown type tag yields a nil value instead of an error
itemOfTypeMut(data, ty) ==
    IF ~ty.ok THEN ty
    ELSE IF ty.val = "bool" THEN parseBoolean(data, ty.pos)
    ELSE IF ty.val = "long" THEN parseInt(data, ty.pos)
    ELSE IF ty.val = "VlLs" THEN parseList(data, ty.pos)
    ELSE IF ty.val \in {"Objc", "GlbO"} THEN DescParse(data, ty.pos)
    ELSE IF ty.val = "TEXT"
    THEN stringValue(readUnicodeString(data, ty.pos))
    ELSE IF ty.val = "enum" THEN parseEnum(data, ty.pos)
    ELSE IF ty.val = "doub" THEN readFixed(data, ty.pos, 8, "float64")
    ELSE DescOk(ty.pos, NilValue)
\* the switch of parseItem on the type tag ty that was read;
\* parseObjectArray always returns an error
itemOfType(data, ty) ==
    IF ~ty.ok THEN ty
    ELSE IF ty.val = "bool" THEN parseBoolean(data, ty.pos)
    ELSE IF ty.val \in {"type", "GlbC"} THEN parseClass(data, ty.pos)
    ELSE IF ty.val \in {"Objc", "GlbO"} THEN DescParse(data, ty.pos)
    ELSE IF ty.val = "doub" THEN readFixed(data, ty.pos, 8, "float64")
    ELSE IF ty.val = "enum" THEN parseEnum(data, ty.pos)
    ELSE IF ty.val = "alis" THEN parseRawData(data, ty.pos)
    ELSE IF ty.val = "long" THEN parseInt(data, ty.pos)
    ELSE IF ty.val = "comp" THEN readFixed(data, ty.pos, 8, "int64")
    ELSE IF ty.val = "VlLs" THEN parseList(data, ty.pos)
    ELSE IF ty.val = "ObAr" THEN DescFail(ty.pos)
    ELSE IF ty.val = "tdta" THEN parseRawData(data, ty.pos)
    ELSE IF ty.val = "obj " THEN parseReference(data, ty.pos)
    ELSE IF ty.val = "TEXT"
    THEN stringValue(readUnicodeString(data, ty.pos))
    ELSE IF ty.val = "UntF"
    THEN unitValue(data, readFull(data, ty.pos, 4), 8, "float64")
    ELSE IF ty.val = "UnFl"
    THEN unitValue(data, readFull(data, ty.pos, 4), 4, "float32")
    ELSE DescFail(ty.pos)

\* DescriptorParser.parseItem("")
parseItem(data, pos) ==
    itemOfType(data, readTag(readFull(data, pos, 4)))

\* the loop of parseList
RECURSIVE listLoop(_, _, _, _, _)
listLoop(data, pos, i, count, items) ==
    IF i >= count THEN DescOk(pos, [t |-> "list", v |-> items])
    ELSE LET x == parseItem(data, pos)
         IN IF ~x.ok THEN DescFail(x.pos)
            ELSE listLoop(data, x.pos, i + 1, count, Append(items, x.val))

\* DescriptorParser.parseList
parseList(data, pos) ==
    LET n == readUint32(data, pos)
    IN IF ~n.ok THEN n ELSE listLoop(data, n.pos, 0, n.val, <<>>)

\* the return of parseKeyItem: the key k and the value x of parseItem
keyItemValue(k, x) ==
    IF ~x.ok THEN x ELSE DescOk(x.pos, [key |-> k.val, value |-> x.val])

\* DescriptorParser.parseKeyItem after the key was read
parseKeyItem(data, k) ==
    IF ~k.ok THEN k ELSE keyItemValue(k, parseItem(data, k.pos))

\* the loop of Parse over the items
RECURSIVE itemsLoop(_, _, _, _, _)
itemsLoop(data, pos, i, numItems, result) ==
    IF i >= numItems THEN DescOk(pos, [t |-> "map", v |-> result])
    ELSE LET x == parseKeyItem(data, parseID(data, pos))
         IN IF ~x.ok THEN DescFail(x.pos)
            ELSE itemsLoop(data, x.pos, i + 1, numItems,
                           mapStore(result, x.val.key, x.val.value))

\* Parse after the class was read
parseItems(data, c) ==
    IF ~c.ok THEN c
    ELSE LET n == readUint32(data, c.pos)
         IN IF ~n.ok THEN n
            ELSE itemsLoop(data, n.pos, 0, n.val,
                           mapStore(EmptyMap, ClassKey, c.val))

\* DescriptorParser.Parse
DescParse(data, pos) == parseItems(data, parseClass(data, pos))

\* a call of Parse on a new parser
DescParseCall ==
    /\ descPc = "new"
    /\ descRes' = DescParse(descData, 0)
    /\ descPc' = "done"
    /\ UNCHANGED <<descSrc, descCut, descData>>
    /\ UNCHANGED notDesc

\* ------------------------------------------------------------------------
\* Encoded descriptors (descriptor_test.go: the fixtures and their helpers)
\* ------------------------------------------------------------------------
\* longest list in the inputs
MaxListLen == 2

\* binary.Write of a uint32 or an int32, big-endian
EncUint32(n) ==
    <<(n \div 16777216) % 256, (n \div 65536) % 256, (n \div 256) % 256,
      n % 256>>

\* writeString: a 4-byte id is written as length 0 and the four bytes, any
\* other id with its length in front
writeString(id) ==
    IF Len(id) = 4 THEN EncUint32(0) \o id ELSE EncUint32(Len(id)) \o id

\* writeUnicodeString: the number of 16-bit units, then the units
writeUnicodeString(units) ==
    EncUint32(Len(units))
    \o Flatten([i \in DOMAIN units |-> <<units[i] \div 256, units[i] % 256>>])

\* the type tag written in front of a value of kind t
TagOf(t) ==
    IF \E b \in DOMAIN TagNames : TagNames[b] = t
    THEN CHOOSE b \in DOMAIN TagNames : TagNames[b] = t
    ELSE <<122, 122, 122, 122>>

RECURSIVE EncValue(_)
RECURSIVE EncDescriptor(_)

\* the type tag and the bytes of a value, as the fixtures write them
EncValue(x) ==
    TagOf(x.t) \o
    (CASE x.t = "bool" -> <<x.v>>
       [] x.t = "long" -> EncUint32(x.v)
       [] x.t = "doub" -> x.v
       [] x.t = "TEXT" -> writeUnicodeString(x.v)
       [] x.t = "enum" -> writeString(x.v[1]) \o writeString(x.v[2])
       [] x.t = "VlLs" ->
            EncUint32(Len(x.v)) \o Flatten([i \in DOMAIN x.v |-> EncValue(x.v[i])])
       [] x.t = "Objc" -> EncDescriptor(x.v)
       [] OTHER -> <<>>)

\* a descriptor: class name, class id, item count, then key and value of
\* every item
EncDescriptor(d) ==
    writeUnicodeString(d.class.name) \o writeString(d.class.id)
    \o EncUint32(Len(d.items))
    \o Flatten([i \in DOMAIN d.items |->
                  writeString(d.items[i].key) \o EncValue(d.items[i].value)])

\* the class of the fixtures: name "Te", id "Test"
FixtureClass == [name |-> <<84, 101>>, id |-> <<84, 101, 115, 116>>]

\* the keys of the first and the second item: "key1" (a 4-byte code) and
\* "ab" (length-prefixed)
FixtureKeys == <<<<107, 101, 121, 49>>, <<97, 98>>>>

\* a descriptor with the given values under the fixture keys
DescriptorOf(values) ==
    [class |-> FixtureClass,
     items |-> [i \in DOMAIN values |->
                  [key |-> FixtureKeys[i], value |-> values[i]]]]

\* scalar values: booleans, 32-bit integers, a double, texts inside and
\* outside the basic plane, an enum, an object array and an unknown tag
ScalarChoices ==
    { [t |-> "bool", v |-> 1], [t |-> "bool", v |-> 0],
      [t |-> "long", v |-> 42], [t |-> "long", v |-> -1],
      [t |-> "doub", v |-> <<64, 9, 30, 184, 81, 235, 133, 31>>],
      [t |-> "TEXT", v |-> <<72, 105>>],
      [t |-> "TEXT", v |-> <<55357, 56832>>],
      [t |-> "enum", v |-> <<<<84, 121, 112, 101>>, <<86, 97>>>>],
      [t |-> "ObAr", v |-> <<>>],
      [t |-> "zzzz", v |-> <<>>] }

\* lists of up to MaxListLen of the given values
ListsOf(values) ==
    { [t |-> "VlLs", v |-> l] :
        l \in UNION { [1..n -> values] : n \in 0..MaxListLen } }

\* nested descriptors that hold one of the given values
NestedOf(values) ==
    { [t |-> "Objc", v |-> DescriptorOf(<<x>>)] : x \in values }

\* values one level deep, and values with a list or a descriptor in a list
\* or a descriptor
DeepChoices ==
    LET one == ListsOf(ScalarChoices) \cup NestedOf(ScalarChoices)
    IN one \cup { [t |-> "VlLs", v |-> <<x>>] : x \in one } \cup NestedOf(one)

\* the descriptors handed to the parser: no item, one item of any shape, or
\* that item followed by a scalar
DescChoices ==
    {DescriptorOf(<<>>)}
    \cup { DescriptorOf(<<x>>) : x \in ScalarChoices \cup DeepChoices }
    \cup { DescriptorOf(<<x, y>>) :
             x \in ScalarChoices \cup DeepChoices, y \in ScalarChoices }

DescInit ==
    /\ descSrc \in DescChoices
    /\ descCut \in 0..1
    /\ descData = SubSeq(EncDescriptor(descSrc), 1,
                         Len(EncDescriptor(descSrc)) - descCut)
    /\ descRes = [ok |-> FALSE, pos |-> 0, val |-> NilValue]
    /\ descPc = "new"

InitDesc ==
    DescInit /\ TreeIdle /\ PsdIdle /\ RleIdle /\ ChanIdle /\ ResIdle
    /\ RenderIdle
    /\ BlendIdle
    /\ PathIdle
    /\ CursorIdle
    /\ InstIdle
    /\ FlatIdle
    /\ ExtraIdle
    /\ MaskIdle
    /\ ComposeIdle
    /\ SectionIdle

NextDesc == DescParseCall

SpecDesc == InitDesc /\ [][NextDesc]_vars

\* ------------------------------------------------------------------------
\* Properties of the descriptor parser (checked under SpecDesc)
\* ------------------------------------------------------------------------
KnownKinds == {"bool", "long", "doub", "TEXT", "enum", "VlLs", "Objc"}

RECURSIVE HasBadTag(_)
\* the value x holds, at any depth, an object array or an unknown type tag
HasBadTag(x) ==
    \/ x.t \notin KnownKinds
    \/ x.t = "VlLs" /\ \E i \in DOMAIN x.v : HasBadTag(x.v[i])
    \/ x.t = "Objc" /\ \E i \in DOMAIN x.v.items : HasBadTag(x.v.items[i].value)

DescHasBadTag(d) == \E i \in DOMAIN d.items : HasBadTag(d.items[i].value)

\* C11: a value whose type tag is "ObAr" or is not a known tag makes the
\* whole descriptor parse fail with an error, at any nesting depth (inside
\* lists and nested descriptors), and no partial mapping is returned.
C11_BadTagFails ==
    (descPc = "done" /\ DescHasBadTag(descSrc)) =>
        (~descRes.ok /\ descRes.val = NilValue)

\* Parse failed on an object array in a list in a nested descriptor that
\* follows nothing but good bytes
C11_Witness ==
    /\ descPc = "done" /\ descCut = 0 /\ ~descRes.ok
    /\ descSrc = DescriptorOf(<<
          [t |-> "Objc",
           v |-> DescriptorOf(<<
                   [t |-> "VlLs", v |-> <<[t |-> "ObAr", v |-> <<>>]>>]>>)]>>)

\* the text that UTF-16 code units stand for: a high surrogate and the low
\* surrogate after it are one character
RECURSIVE UTF16Decode(_)
UTF16Decode(units) ==
    IF units = <<>> THEN <<>>
    ELSE IF /\ Len(units) >= 2
            /\ units[1] >= 55296 /\ units[1] <= 56319
            /\ units[2] >= 56320 /\ units[2] <= 57343
    THEN <<65536 + (units[1] - 55296) * 1024 + (units[2] - 56320)>>
         \o UTF16Decode(SubSeq(units, 3, Len(units)))
    ELSE <<IF units[1] >= 55296 /\ units[1] <= 57343 THEN 65533
           ELSE units[1]>>
         \o UTF16Decode(Tail(units))

RECURSIVE EncodedValue(_)
RECURSIVE EncodedMap(_)

\* the value that the encoding of x stands for
EncodedValue(x) ==
    CASE x.t = "bool" -> [t |-> "bool", v |-> x.v # 0]
      [] x.t = "long" -> [t |-> "int32", v |-> x.v]
      [] x.t = "doub" -> [t |-> "float64", v |-> x.v]
      [] x.t = "TEXT" -> [t |-> "string", v |-> UTF16Decode(x.v)]
      [] x.t = "enum" ->
            [t |-> "enum",
             v |-> [class |-> NilValue, type |-> x.v[1], value |-> x.v[2]]]
      [] x.t = "VlLs" ->
            [t |-> "list", v |-> [i \in DOMAIN x.v |-> EncodedValue(x.v[i])]]
      [] x.t = "Objc" -> [t |-> "map", v |-> EncodedMap(x.v)]

\* the mapping that the encoding of the descriptor d stands for
EncodedMap(d) ==
    [k \in {ClassKey} \cup {d.items[i].key : i \in DOMAIN d.items} |->
        IF k = ClassKey
        THEN [t |-> "class",
              v |-> [name |-> UTF16Decode(d.class.name), id |-> d.class.id]]
        ELSE EncodedValue(
               d.items[CHOOSE i \in DOMAIN d.items : d.items[i].key = k].value)]

\* C12: decoding is the inverse of encoding: for a well-formed encoded
\* descriptor of boolean, 32-bit int, double, text, enum and list values,
\* Parse returns a mapping in which every encoded key maps to its encoded
\* value, and it consumes exactly the bytes of the encoding.
C12_DecodeInvertsEncode ==
    (descPc = "done" /\ descCut = 0 /\ ~DescHasBadTag(descSrc)) =>
        /\ descRes.ok
        /\ descRes.pos = Len(descData)
        /\ descRes.val = [t |-> "map", v |-> EncodedMap(descSrc)]

RECURSIVE HasSurrogate(_)
\* the value x holds a text with a character outside the basic plane
HasSurrogate(x) ==
    \/ x.t = "TEXT" /\ \E i \in DOMAIN x.v : x.v[i] >= 55296 /\ x.v[i] <= 57343
    \/ x.t = "VlLs" /\ \E i \in DOMAIN x.v : HasSurrogate(x.v[i])
    \/ x.t = "Objc" /\ \E i \in DOMAIN x.v.items : HasSurrogate(x.v.items[i].value)

\* C12 for texts of the basic plane only
C12_BasicPlane ==
    (/\ descPc = "done" /\ descCut = 0 /\ ~DescHasBadTag(descSrc)
     /\ ~\E i \in DOMAIN descSrc.items : HasSurrogate(descSrc.items[i].value)) =>
        /\ descRes.ok
        /\ descRes.pos = Len(descData)
        /\ descRes.val = [t |-> "map", v |-> EncodedMap(descSrc)]

\* ------------------------------------------------------------------------
\* The renderer (renderer.go: Renderer)
\* ------------------------------------------------------------------------
\* A renderer is made for the root of a tree and Render is called on it.
\* The calls of renderNode in progress are the frames of rnStack; a frame
\* is [node, pc, i]: pc is "enter" at the start of the call and "loop" in
\* its loop over the children, where i is the 1-based index of the child
\* the loop takes next.  A pixel of the canvas holds the sequence of the
\* layers that were blended onto it since it was cleared.
MaxRenderNodes == 3

notRender == <<treeVars, psdVars, rleVars, chanVars, resVars, descVars, blVars, ptVars, cuVars, inVars, flVars, exVars, mkVars, cpVars, liVars>>

\* the pixels of the canvas of a node: image.Rect(0, 0, width, height)
CanvasPixels(node) ==
    (0..(Width(node) - 1)) \X (0..(Height(node) - 1))

\* Layer.ToImage returns nil for a layer without width or height
ToImageNil(layer) == Width(layer) = 0 \/ Height(layer) = 0

\* the coordinates of the bounds of image.Rect(0, 0, n, ...): the
\* rectangle is made well-formed, a negative n gives n..-1
imageRange(n) == IF n >= 0 THEN 0..(n - 1) ELSE n..(-1)

\* the canvas pixels the loop of renderLayer sets for a layer, over the
\* bounds of the layer image: offsetX and offsetY are 0 in every call of
\* renderNode that Render leads to
LayerPixels(layer, root) ==
    {d \in CanvasPixels(root) :
        \E x \in imageRange(Width(layer)), y \in imageRange(Height(layer)) :
            d = <<layer.Left - root.Left + x, layer.Top - root.Top + y>>}

\* Renderer.renderLayer of the layer of node n: r.canvas.Set(dstX, dstY,
\* blendFunc(srcColor, dstColor, calculatedOpacity)) for every pixel of the
\* layer image that lies on the canvas
renderLayer(canvas, n, layer, root) ==
    IF layer.channels = 0 \/ ToImageNil(layer) THEN canvas
    ELSE [d \in DOMAIN canvas |->
            IF d \in LayerPixels(layer, root) THEN Append(canvas[d], n)
            ELSE canvas[d]]

\* faulty variant: the list of excluded types is not looked at
shouldExcludeNodeMut(options, node) ==
    options.ExcludeTextLayers /\ node.IsText
\* Renderer.shouldExcludeNode
shouldExcludeNode(options, node) ==
    IF options.ExcludeTextLayers /\ node.IsText THEN TRUE
    ELSE \E k \in DOMAIN options.ExcludeTypes :
            node.Type = options.ExcludeTypes[k]

\* the first two returns of renderNode
skipNode(options, node) == ~node.Visible \/ shouldExcludeNode(options, node)

\* faulty variant: the loop takes the children from the front
loopChildMut(node, i) == node.Children[Len(node.Children) + 1 - i]
\* child := node.Children[i]
loopChild(node, i) == node.Children[i]

TopFrame == rnStack[Len(rnStack)]

\* return from the innermost call of renderNode
PopFrame ==
    /\ rnStack' = SubSeq(rnStack, 1, Len(rnStack) - 1)
    /\ rnReturned' = rnReturned \cup {TopFrame.node}

\* Renderer.Render up to its call of renderNode(r.node, 0, 0)
Render ==
    /\ rnPc = "new"
    /\ rnCanvas' = [d \in DOMAIN rnCanvas |-> <<>>]
    /\ rnStack' = <<[node |-> 1, pc |-> "enter", i |-> 0]>>
    /\ rnPc' = "run"
    /\ UNCHANGED <<rnNodes, rnOptions, rnLog, rnReturned>>
    /\ UNCHANGED notRender

\* renderNode of a node that is not visible or is excluded
RenderNodeSkip ==
    /\ rnPc = "run" /\ rnStack # <<>> /\ TopFrame.pc = "enter"
    /\ skipNode(rnOptions, rnNodes[TopFrame.node])
    /\ PopFrame
    /\ UNCHANGED <<rnNodes, rnOptions, rnCanvas, rnLog, rnPc>>
    /\ UNCHANGED notRender

\* renderNode of a layer node
RenderNodeLayer ==
    /\ rnPc = "run" /\ rnStack # <<>> /\ TopFrame.pc = "enter"
    /\ ~skipNode(rnOptions, rnNodes[TopFrame.node])
    /\ rnNodes[TopFrame.node].Type = NodeTypeLayer
    /\ IF rnNodes[TopFrame.node].Layer # <<>>
       THEN /\ rnCanvas' = renderLayer(rnCanvas, TopFrame.node,
                                       rnNodes[TopFrame.node].Layer[1],
                                       rnNodes[1])
            /\ rnLog' = Append(rnLog, TopFrame.node)
       ELSE UNCHANGED <<rnCanvas, rnLog>>
    /\ PopFrame
    /\ UNCHANGED <<rnNodes, rnOptions, rnPc>>
    /\ UNCHANGED notRender

\* renderNode of a group or of the root: i := len(node.Children) - 1
RenderNodeGroup ==
    /\ rnPc = "run" /\ rnStack # <<>> /\ TopFrame.pc = "enter"
    /\ ~skipNode(rnOptions, rnNodes[TopFrame.node])
    /\ rnNodes[TopFrame.node].Type \in {NodeTypeGroup, NodeTypeRoot}
    /\ rnStack' = [rnStack EXCEPT ![Len(rnStack)] =
                      [@ EXCEPT !.pc = "loop",
                                !.i = Len(rnNodes[TopFrame.node].Children)]]
    /\ UNCHANGED <<rnNodes, rnOptions, rnCanvas, rnLog, rnReturned, rnPc>>
    /\ UNCHANGED notRender

\* one pass of the loop: r.renderNode(child, offsetX, offsetY), then i--
RenderChild ==
    /\ rnPc = "run" /\ rnStack # <<>> /\ TopFrame.pc = "loop"
    /\ TopFrame.i >= 1
    /\ rnStack' =
          Append([rnStack EXCEPT ![Len(rnStack)].i = @ - 1],
                 [node |-> loopChild(rnNodes[TopFrame.node], TopFrame.i),
                  pc |-> "enter", i |-> 0])
    /\ UNCHANGED <<rnNodes, rnOptions, rnCanvas, rnLog, rnReturned, rnPc>>
    /\ UNCHANGED notRender

\* the loop is over: return nil
RenderNodeReturn ==
    /\ rnPc = "run" /\ rnStack # <<>> /\ TopFrame.pc = "loop"
    /\ TopFrame.i < 1
    /\ PopFrame
    /\ UNCHANGED <<rnNodes, rnOptions, rnCanvas, rnLog, rnPc>>
    /\ UNCHANGED notRender

\* Render returns r.canvas
RenderFinish ==
    /\ rnPc = "run" /\ rnStack = <<>>
    /\ rnPc' = "done"
    /\ UNCHANGED <<rnNodes, rnOptions, rnCanvas, rnStack, rnLog, rnReturned>>
    /\ UNCHANGED notRender

\* ---- the trees and options a renderer is made for ----
RenderIds == 2..(MaxRenderNodes + 1)

\* the layers of the nodes, by node id: one that covers the canvas, one
\* that lies partly outside of it, one on its first pixel, one without
\* channel data and one without width
RenderLayerOf(n, flags) ==
    CASE n % 5 = 2 ->
           [Left |-> 0, Top |-> 0, Right |-> 2, Bottom |-> 1, channels |-> 3,
            Flags |-> flags]
      [] n % 5 = 3 ->
           [Left |-> 1, Top |-> 0, Right |-> 3, Bottom |-> 1, channels |-> 3,
            Flags |-> flags]
      [] n % 5 = 4 ->
           [Left |-> 0, Top |-> 0, Right |-> 1, Bottom |-> 1, channels |-> 4,
            Flags |-> flags]
      [] n % 5 = 0 ->
           [Left |-> 0, Top |-> 0, Right |-> 2, Bottom |-> 1, channels |-> 0,
            Flags |-> flags]
      [] OTHER ->
           [Left |-> 1, Top |-> 0, Right |-> 1, Bottom |-> 1, channels |-> 3,
            Flags |-> flags]

\* Layer.Visible: bit 0x02 of the flags byte is clear
Visible(layer) == (layer.Flags \div 2) % 2 = 0

\* the flags byte of the layer of node n: bit 0x02 set for a hidden layer,
\* bit 0x01 set or clear
RenderFlags(n, hidden) == IF n \in hidden THEN 2 + (n % 2) ELSE n % 2

\* the layer of node n in a tree: the layers of the nodes in flipped have
\* their left and right edges exchanged, a record with Right < Left
\* (parseRecord takes the four edges as they are)
RenderLayerIn(n, hidden, flipped) ==
    IF n \in flipped
    THEN [RenderLayerOf(n, RenderFlags(n, hidden)) EXCEPT
             !.Left = RenderLayerOf(n, 0).Right,
             !.Right = RenderLayerOf(n, 0).Left]
    ELSE RenderLayerOf(n, RenderFlags(n, hidden))

\* the tree in which node n has type types[n] and parent parents[n], the
\* layers of the nodes in hidden have flag 0x02 set and those in text are
\* text layers; Visible is set as buildTree sets it; the
\* canvas of the root is 2 x 1; a Layer pointer is <<>> when nil, else the
\* one-element sequence of the layer
RenderTree(types, parents, hidden, text, flipped) ==
    [n \in 1..(MaxRenderNodes + 1) |->
       [Type |-> IF n = 1 THEN NodeTypeRoot ELSE types[n],
        Layer |-> IF n = 1 THEN <<>>
                  ELSE <<RenderLayerIn(n, hidden, flipped)>>,
        Parent |-> IF n = 1 THEN NIL ELSE parents[n],
        Children |-> SelectSeq([k \in 1..(MaxRenderNodes + 1) |-> k],
                               LAMBDA k : k > 1 /\ parents[k] = n),
        Visible |-> IF n = 1 THEN TRUE
                    ELSE Visible(RenderLayerIn(n, hidden, flipped)),
        IsText |-> n \in text /\ n > 1 /\ types[n] = NodeTypeLayer,
        Left |-> 0, Top |-> 0, Right |-> 2, Bottom |-> 1]]

\* a parent lies before its children and is the root or a group
RenderTrees ==
    {RenderTree(types, parents, hidden, text, flipped) :
        types \in [RenderIds -> {NodeTypeGroup, NodeTypeLayer}],
        parents \in {ps \in [RenderIds -> 1..MaxRenderNodes] :
                        \A n \in RenderIds : ps[n] < n},
        hidden \in SUBSET RenderIds,
        text \in {{}, {3}, {4}},
        flipped \in {{}, {3}}}

RenderOptions ==
    [ExcludeTextLayers : BOOLEAN,
     ExcludeTypes : {<<>>, <<NodeTypeGroup>>, <<NodeTypeLayer, NodeTypeRoot>>}]

RenderInit ==
    /\ rnNodes \in {t \in RenderTrees :
                      \A n \in RenderIds :
                          t[t[n].Parent].Type # NodeTypeLayer}
    /\ rnOptions \in RenderOptions
    /\ rnCanvas = [d \in CanvasPixels(rnNodes[1]) |-> <<>>]
    /\ rnStack = <<>>
    /\ rnLog = <<>>
    /\ rnReturned = {}
    /\ rnPc = "new"

InitRender ==
    RenderInit /\ TreeIdle /\ PsdIdle /\ RleIdle /\ ChanIdle /\ ResIdle
    /\ DescIdle
    /\ BlendIdle
    /\ PathIdle
    /\ CursorIdle
    /\ InstIdle
    /\ FlatIdle
    /\ ExtraIdle
    /\ MaskIdle
    /\ ComposeIdle
    /\ SectionIdle

NextRender ==
    \/ Render
    \/ RenderNodeSkip
    \/ RenderNodeLayer
    \/ RenderNodeGroup
    \/ RenderChild
    \/ RenderNodeReturn
    \/ RenderFinish

SpecRender == InitRender /\ [][NextRender]_vars

\* ---- claims about the renderer ----
\* the ids of the nodes of the subtree under node n, n included
RECURSIVE SubtreeIds(_, _)
SubtreeIds(ns, n) ==
    {n} \cup UNION {SubtreeIds(ns, ns[n].Children[k]) :
                      k \in DOMAIN ns[n].Children}

\* the position of node n in the log of composited layers, 0 if absent
LogPos(n) ==
    IF \E k \in DOMAIN rnLog : rnLog[k] = n
    THEN CHOOSE k \in DOMAIN rnLog : rnLog[k] = n
    ELSE 0

\* node n matches the exclusion filter of the options
Filtered(n) ==
    \/ rnOptions.ExcludeTextLayers /\ rnNodes[n].IsText
    \/ rnNodes[n].Type \in Range(rnOptions.ExcludeTypes)

\* the layer of node n has bit 0x02 of its flags set
Hidden(n) == n > 1 /\ (rnNodes[n].Layer[1].Flags \div 2) % 2 = 1

\* neither node n nor a node above it is hidden or excluded
RECURSIVE Shown(_)
Shown(n) ==
    /\ ~Hidden(n) /\ ~Filtered(n)
    /\ rnNodes[n].Parent = NIL \/ Shown(rnNodes[n].Parent)

\* the layers the rendering of node g has to composite
DueLayers(g) ==
    {n \in SubtreeIds(rnNodes, g) :
        rnNodes[n].Type = NodeTypeLayer /\ Shown(n)}

\* C13: the children of a rendered root or group are composited from the
\* highest index down to index 0, every layer under one child before any
\* layer under the next child, and the call for a node returns only after
\* the calls for all of its children have returned and every layer under
\* it that is to be drawn has been composited.
C13_RenderOrder ==
    /\ \A g \in DOMAIN rnNodes :
         \A a, b \in DOMAIN rnNodes[g].Children :
            a < b =>
              \A x \in SubtreeIds(rnNodes, rnNodes[g].Children[a]),
                 y \in SubtreeIds(rnNodes, rnNodes[g].Children[b]) :
                 (LogPos(x) > 0 /\ LogPos(y) > 0) => LogPos(y) < LogPos(x)
    /\ \A g \in rnReturned :
         Shown(g) =>
           /\ \A k \in DOMAIN rnNodes[g].Children :
                 rnNodes[g].Children[k] \in rnReturned
           /\ \A n \in DueLayers(g) : LogPos(n) > 0

\* a rendering has ended in which the layer under a group was composited
\* before a layer that is stored in front of the group
C13_Witness ==
    /\ rnPc = "done"
    /\ \E g \in DOMAIN rnNodes :
         /\ rnNodes[g].Type = NodeTypeGroup
         /\ rnNodes[g].Parent = 1
         /\ Len(rnNodes[g].Children) = 1
         /\ LogPos(rnNodes[g].Children[1]) > 0
         /\ \E s \in DOMAIN rnNodes :
               /\ rnNodes[s].Parent = 1 /\ s < g
               /\ LogPos(s) > LogPos(rnNodes[g].Children[1])

\* C14: no pixel of the canvas is changed for a layer that is hidden (bit
\* 0x02 of its flags set), that the options exclude, or that lies under a
\* hidden or excluded group: renderLayer is never called for such a layer.
C14_SkippedSubtrees ==
    /\ \A d \in DOMAIN rnCanvas :
          \A k \in DOMAIN rnCanvas[d] : Shown(rnCanvas[d][k])
    /\ \A k \in DOMAIN rnLog : Shown(rnLog[k])

\* a rendering has ended that drew on the canvas and never called
\* renderNode for a visible layer under a hidden group
C14_Witness ==
    /\ rnPc = "done"
    /\ \E d \in DOMAIN rnCanvas : rnCanvas[d] # <<>>
    /\ \E n \in DOMAIN rnNodes :
          /\ rnNodes[n].Type = NodeTypeLayer
          /\ ~Hidden(n) /\ ~Filtered(n)
          /\ rnNodes[n].Parent > 1
          /\ Hidden(rnNodes[n].Parent)
          /\ LogPos(n) = 0
          /\ n \notin rnReturned

\* ------------------------------------------------------------------------
\* Blend modes (layer.go: Layer.BlendMode; header.go: GetBlendFunc)
\* ------------------------------------------------------------------------
\* A pixel is a color.RGBA [R, G, B, A] of 8-bit components.  A blend
\* function is known by its name.  Of the blend functions only blendNormal
\* and blendDissolve are computed; the others work on floating-point
\* numbers, and a call of one of them returns OtherBlend.
notBlend == <<treeVars, psdVars, rleVars, chanVars, resVars, descVars, rnVars, ptVars, cuVars, inVars, flVars, exVars, mkVars, cpVars, liVars>>

OtherBlend == [R |-> -1, G |-> -1, B |-> -1, A |-> -1]

\* GetBlendFunc: the blend function for a blend mode, by its name
GetBlendFunc(blendMode) ==
    CASE blendMode \in {"normal", "norm"} -> "blendNormal"
      [] blendMode \in {"multiply", "mul "} -> "blendMultiply"
      [] blendMode \in {"screen", "scrn"} -> "blendScreen"
      [] blendMode \in {"overlay", "over"} -> "blendOverlay"
      [] blendMode \in {"darken", "dark"} -> "blendDarken"
      [] blendMode \in {"lighten", "lite"} -> "blendLighten"
      [] blendMode \in {"color_dodge", "div "} -> "blendColorDodge"
      [] blendMode \in {"color_burn", "idiv"} -> "blendColorBurn"
      [] blendMode \in {"hard_light", "hLit"} -> "blendHardLight"
      [] blendMode \in {"soft_light", "sLit"} -> "blendSoftLight"
      [] blendMode \in {"difference", "diff"} -> "blendDifference"
      [] blendMode \in {"exclusion", "smud"} -> "blendExclusion"
      [] blendMode \in {"linear_dodge", "lddg"} -> "blendLinearDodge"
      [] blendMode \in {"linear_burn", "lbrn"} -> "blendLinearBurn"
      [] blendMode \in {"linear_light", "lLit"} -> "blendLinearLight"
      [] blendMode \in {"color", "colr"} -> "blendColor"
      [] blendMode \in {"vivid_light", "vLit"} -> "blendVividLight"
      [] blendMode \in {"pin_light", "pLit"} -> "blendPinLight"
      [] blendMode \in {"hard_mix", "hMix"} -> "blendHardMix"
      [] blendMode \in {"hue", "hue "} -> "blendHue"
      [] blendMode \in {"saturation", "sat "} -> "blendSaturation"
      [] blendMode \in {"luminosity", "lum "} -> "blendLuminosity"
      [] blendMode \in {"subtract", "fsub"} -> "blendSubtract"
      [] blendMode \in {"divide", "fdiv"} -> "blendDivide"
      [] blendMode \in {"dissolve", "diss"} -> "blendDissolve"
      [] blendMode \in {"darker_color", "dkCl"} -> "blendDarkerColor"
      [] blendMode \in {"lighter_color", "lgCl"} -> "blendLighterColor"
      [] blendMode \in {"passthru", "pass"} -> "blendNormal"
      [] OTHER -> "blendNormal"

\* the map modes of blendModeString
modes ==
    ("norm" :> "normal")
    @@ ("dark" :> "darken")
    @@ ("lite" :> "lighten")
    @@ ("hue " :> "hue")
    @@ ("sat " :> "saturation")
    @@ ("colr" :> "color")
    @@ ("lum " :> "luminosity")
    @@ ("mul " :> "multiply")
    @@ ("scrn" :> "screen")
    @@ ("diss" :> "dissolve")
    @@ ("over" :> "overlay")
    @@ ("hLit" :> "hard_light")
    @@ ("sLit" :> "soft_light")
    @@ ("diff" :> "difference")
    @@ ("smud" :> "exclusion")
    @@ ("div " :> "color_dodge")
    @@ ("idiv" :> "color_burn")
    @@ ("lbrn" :> "linear_burn")
    @@ ("lddg" :> "linear_dodge")
    @@ ("vLit" :> "vivid_light")
    @@ ("lLit" :> "linear_light")
    @@ ("pLit" :> "pin_light")
    @@ ("hMix" :> "hard_mix")
    @@ ("lgCl" :> "lighter_color")
    @@ ("dkCl" :> "darker_color")
    @@ ("fsub" :> "subtract")
    @@ ("fdiv" :> "divide")

\* unicode.IsSpace for a string of one character (of the characters that
\* can be written here)
IsSpace(c) == c \in {" ", "\t", "\n", "\r", "\f"}

\* strings.TrimSpace
RECURSIVE TrimSpace(_)
TrimSpace(str) ==
    IF Len(str) > 0 /\ IsSpace(SubSeq(str, 1, 1))
    THEN TrimSpace(SubSeq(str, 2, Len(str)))
    ELSE IF Len(str) > 0 /\ IsSpace(SubSeq(str, Len(str), Len(str)))
    THEN TrimSpace(SubSeq(str, 1, Len(str) - 1))
    ELSE str

\* Layer.blendModeString
blendModeString(key) ==
    IF key \in DOMAIN modes THEN modes[key] ELSE TrimSpace(key)

\* color.RGBA.RGBA: an 8-bit component as a 16-bit one (v |= v << 8)
RGBA16(v) == v * 257

\* the conversion uint8(x)
uint8(x) == x % 256

\* alpha := uint32(opacity) * sa / 255 / 257
normalAlpha(src, opacity) == ((opacity * RGBA16(src.A)) \div 255) \div 257

\* outAlpha := alpha + (da*(255-alpha))/255, da being the 16-bit alpha
normalOutAlpha(dst, alpha) ==
    alpha + (RGBA16(dst.A) * (255 - alpha)) \div 255

\* outRed := (sr8*alpha + dr8*da*(255-alpha)/255) / outAlpha with
\* sr8 = sr>>8 and dr8 = dr>>8; the arithmetic is uint32 in the code, and
\* no product reaches 2^32
normalChannel(s, d, da, alpha, outAlpha) ==
    ((RGBA16(s) \div 256) * alpha
     + ((RGBA16(d) \div 256) * da * (255 - alpha)) \div 255) \div outAlpha

\* the end of blendNormal, from the test of outAlpha on
normalOver(src, dst, alpha, outAlpha) ==
    IF outAlpha = 0 THEN [R |-> 0, G |-> 0, B |-> 0, A |-> 0]
    ELSE [R |-> uint8(normalChannel(src.R, dst.R, RGBA16(dst.A), alpha,
                                    outAlpha)),
          G |-> uint8(normalChannel(src.G, dst.G, RGBA16(dst.A), alpha,
                                    outAlpha)),
          B |-> uint8(normalChannel(src.B, dst.B, RGBA16(dst.A), alpha,
                                    outAlpha)),
          A |-> uint8(outAlpha)]

\* blendNormal once alpha is known
normalBlend(src, dst, alpha) ==
    IF alpha = 0
    THEN [R |-> uint8(RGBA16(dst.R) \div 256),
          G |-> uint8(RGBA16(dst.G) \div 256),
          B |-> uint8(RGBA16(dst.B) \div 256),
          A |-> uint8(RGBA16(dst.A) \div 256)]
    ELSE IF alpha = 255 /\ RGBA16(dst.A) = 0
    THEN [R |-> uint8(RGBA16(src.R) \div 256),
          G |-> uint8(RGBA16(src.G) \div 256),
          B |-> uint8(RGBA16(src.B) \div 256),
          A |-> uint8(alpha)]
    ELSE normalOver(src, dst, alpha, normalOutAlpha(dst, alpha))

\* blendNormal
blendNormal(src, dst, opacity) ==
    normalBlend(src, dst, normalAlpha(src, opacity))

\* faulty variant: dissolve returns the source pixel
blendDissolveMut(src, dst, opacity) == src
\* blendDissolve
blendDissolve(src, dst, opacity) == blendNormal(src, dst, opacity)

\* blendFunc(srcColor, dstColor, calculatedOpacity) for the function func
CallBlend(func, src, dst, opacity) ==
    IF func = "blendNormal" THEN blendNormal(src, dst, opacity)
    ELSE IF func = "blendDissolve" THEN blendDissolve(src, dst, opacity)
    ELSE OtherBlend

\* layer.BlendMode() of a layer whose key is blKey
BlendModeCall ==
    /\ "new" \in blPc /\ "BlendMode" \notin blPc
    /\ Len(blKey) = 4
    /\ blMode' = blendModeString(blKey)
    /\ blPc' = blPc \cup {"BlendMode"}
    /\ UNCHANGED <<blKey, blSrc, blDst, blOpacity, blFunc, blOut>>
    /\ UNCHANGED notBlend

\* blendFunc := GetBlendFunc(blKey); blended := blendFunc(src, dst, opacity)
BlendPixel ==
    /\ "new" \in blPc /\ "GetBlendFunc" \notin blPc
    /\ blFunc' = GetBlendFunc(blKey)
    /\ blOut' = CallBlend(GetBlendFunc(blKey), blSrc, blDst, blOpacity)
    /\ blPc' = blPc \cup {"GetBlendFunc"}
    /\ UNCHANGED <<blKey, blSrc, blDst, blOpacity, blMode>>
    /\ UNCHANGED notBlend

\* ---- the keys, names and pixels of the calls ----
\* the keys of the map and passthru's, the names they stand for, and
\* strings that are neither
BlendKeys ==
    DOMAIN modes
    \cup {modes[k] : k \in DOMAIN modes}
    \cup {"pass", "passthru", "abc ", " abc", "xyz1", "    ", " hue",
          "hue\t", "nor ", "bogus_mode", ""}

\* destination channels stay below 129 so that no product of normalChannel
\* reaches 2^31
BlendInit ==
    /\ blKey \in BlendKeys
    /\ blSrc \in [R : {0, 255}, G : {100}, B : {200}, A : {0, 128, 255}]
    /\ blDst \in [R : {0, 128}, G : {50}, B : {128}, A : {0, 128, 255}]
    /\ blOpacity \in {0, 128, 255}
    /\ blFunc = ""
    /\ blOut = [R |-> 0, G |-> 0, B |-> 0, A |-> 0]
    /\ blMode = ""
    /\ blPc = {"new"}

InitBlend ==
    BlendInit /\ TreeIdle /\ PsdIdle /\ RleIdle /\ ChanIdle /\ ResIdle
    /\ DescIdle /\ RenderIdle
    /\ PathIdle
    /\ CursorIdle
    /\ InstIdle
    /\ FlatIdle
    /\ ExtraIdle
    /\ MaskIdle
    /\ ComposeIdle
    /\ SectionIdle

NextBlend == BlendModeCall \/ BlendPixel

SpecBlend == InitBlend /\ [][NextBlend]_vars

\* ---- claims about the blend modes ----
\* a = floor(o * srcA / 255)
SourceAlpha == (blOpacity * blSrc.A) \div 255

\* a + floor(dstA * (255 - a) / 255)
SourceOverAlpha == SourceAlpha + (blDst.A * (255 - SourceAlpha)) \div 255

\* out is, within two units, the mean of s and d weighted by a and
\* dstA * (255 - a) / 255; the weights add up to the output alpha
WeightedMean(out, s, d) ==
    LET exact == s * SourceAlpha * 255 + d * blDst.A * (255 - SourceAlpha)
        got == out * SourceOverAlpha * 255
    IN /\ got - exact <= 2 * 255 * SourceOverAlpha
       /\ exact - got <= 2 * 255 * SourceOverAlpha

NormalCalled == "GetBlendFunc" \in blPc /\ blFunc = "blendNormal"

\* C15: the normal blend of 8-bit pixels returns the alpha
\* a + floor(dstA * (255 - a) / 255) with a = floor(o * srcA / 255), colour
\* channels that are the mean of the source and destination channels
\* weighted by a and dstA * (255 - a) / 255, and components within 0..255.
C15_NormalSourceOver ==
    NormalCalled =>
      /\ blOut.A = SourceOverAlpha
      /\ SourceOverAlpha > 0 =>
            /\ WeightedMean(blOut.R, blSrc.R, blDst.R)
            /\ WeightedMean(blOut.G, blSrc.G, blDst.G)
            /\ WeightedMean(blOut.B, blSrc.B, blDst.B)
      /\ \A c \in {"R", "G", "B", "A"} : blOut[c] \in 0..255

\* what holds of C15: the components stay within 0..255, the alpha is the
\* source-over alpha when the destination is fully transparent or fully
\* opaque, and the pixel is the source-over pixel when the destination is
\* fully transparent
C15_PlainDestination ==
    NormalCalled =>
      /\ \A c \in {"R", "G", "B", "A"} : blOut[c] \in 0..255
      /\ blDst.A \in {0, 255} => blOut.A = SourceOverAlpha
      /\ (blDst.A = 0 /\ SourceOverAlpha > 0) =>
            /\ WeightedMean(blOut.R, blSrc.R, blDst.R)
            /\ WeightedMean(blOut.G, blSrc.G, blDst.G)
            /\ WeightedMean(blOut.B, blSrc.B, blDst.B)

\* the names the dispatch table lists
TableNames ==
    {"normal", "norm",
     "multiply", "mul ",
     "screen", "scrn",
     "overlay", "over",
     "darken", "dark",
     "lighten", "lite",
     "color_dodge", "div ",
     "color_burn", "idiv",
     "hard_light", "hLit",
     "soft_light", "sLit",
     "difference", "diff",
     "exclusion", "smud",
     "linear_dodge", "lddg",
     "linear_burn", "lbrn",
     "linear_light", "lLit",
     "color", "colr",
     "vivid_light", "vLit",
     "pin_light", "pLit",
     "hard_mix", "hMix",
     "hue", "hue ",
     "saturation", "sat ",
     "luminosity", "lum ",
     "subtract", "fsub",
     "divide", "fdiv",
     "dissolve", "diss",
     "darker_color", "dkCl",
     "lighter_color", "lgCl",
     "passthru", "pass"}

\* C16: GetBlendFunc returns blendNormal for a name that its table does
\* not list, and blendDissolve returns what blendNormal returns for the
\* same source pixel, destination pixel and opacity.
C16_FallbackToNormal ==
    "GetBlendFunc" \in blPc =>
      /\ blKey \notin TableNames => blFunc = "blendNormal"
      /\ blKey \in {"dissolve", "diss"} =>
            /\ blFunc = "blendDissolve"
            /\ blOut = blendNormal(blSrc, blDst, blOpacity)

\* dissolve was called with a half-transparent source on an opaque
\* destination
C16_Witness ==
    /\ "GetBlendFunc" \in blPc
    /\ blKey = "diss"
    /\ blSrc.A = 128 /\ blDst.A = 255 /\ blOpacity = 255
    /\ blOut.A = 255

\* an unlisted name was dispatched and the pixel was blended
C16_WitnessUnknown ==
    /\ "GetBlendFunc" \in blPc
    /\ blKey = "bogus_mode"
    /\ blSrc.A = 255 /\ blDst.A = 0 /\ blOpacity = 255
    /\ blOut = blSrc

\* str without the white space at its ends: the longest part of str that
\* neither starts nor ends with a space character
Trimmed(str) ==
    LET parts == {<<i, j>> \in (1..(Len(str) + 1)) \X (0..Len(str)) :
                     /\ j >= i - 1
                     /\ \A k \in (1..(i - 1)) \cup ((j + 1)..Len(str)) :
                           IsSpace(SubSeq(str, k, k))
                     /\ j >= i => /\ ~IsSpace(SubSeq(str, i, i))
                                  /\ ~IsSpace(SubSeq(str, j, j))}
        best == CHOOSE p \in parts : \A q \in parts : p[2] - p[1] >= q[2] - q[1]
    IN SubSeq(str, best[1], best[2])

\* the normalized name of a key
NormalizedName(key) ==
    IF key \in DOMAIN modes THEN modes[key] ELSE Trimmed(key)

\* C17: BlendMode().Mode of a layer is the normalized name of its blend
\* key (the trimmed key when the table has no entry for it), and
\* GetBlendFunc selects the same blend function for the key as for that
\* name.
C17_ModeMatchesDispatch ==
    "BlendMode" \in blPc =>
      /\ blMode = NormalizedName(blKey)
      /\ GetBlendFunc(blKey) = GetBlendFunc(blMode)

\* what holds of C17: the mode is the normalized name, and the dispatch
\* agrees for every key that the table lists or that has no white space
\* at its ends
C17_ModeIsNormalizedName ==
    "BlendMode" \in blPc =>
      /\ blMode = NormalizedName(blKey)
      /\ (blKey \in DOMAIN modes \/ Trimmed(blKey) = blKey) =>
            GetBlendFunc(blKey) = GetBlendFunc(blMode)

\* ------------------------------------------------------------------------
\* Tree search (renderer.go: Node.Path, Node.ChildrenAtPath)
\* ------------------------------------------------------------------------
\* A path handed to ChildrenAtPath is [t, v]: a Go string (t = "string")
\* or a []string (t = "array").
MaxPathNodes == 3

notPath ==
    <<treeVars, psdVars, rleVars, chanVars, resVars, descVars, rnVars,
      blVars, cuVars, inVars, flVars, exVars, mkVars, cpVars, liVars>>

\* strings.Join(parts, "/")
RECURSIVE Join(_)
Join(parts) ==
    IF Len(parts) = 0 THEN ""
    ELSE IF Len(parts) = 1 THEN parts[1]
    ELSE parts[1] \o "/" \o Join(Tail(parts))

\* strings.Split(p, "/"), piece being the part read since the last slash
RECURSIVE SplitLoop(_, _, _)
SplitLoop(p, i, piece) ==
    IF i > Len(p) THEN <<piece>>
    ELSE IF SubSeq(p, i, i) = "/" THEN <<piece>> \o SplitLoop(p, i + 1, "")
    ELSE SplitLoop(p, i + 1, piece \o SubSeq(p, i, i))

Split(p) == SplitLoop(p, 1, "")

\* strings.TrimPrefix(p, "/")
TrimPrefix(p) ==
    IF Len(p) >= 1 /\ SubSeq(p, 1, 1) = "/" THEN SubSeq(p, 2, Len(p)) ELSE p

\* Node.Path(): the names from below the root down to n, joined by "/"
RECURSIVE PathParts(_, _)
PathParts(ns, n) ==
    IF ns[n].Parent = NIL THEN <<>>
    ELSE Append(PathParts(ns, ns[n].Parent), ns[n].Name)

Path(ns, n) == Join(PathParts(ns, n))

RECURSIVE findAtPath(_, _, _)
RECURSIVE findLoop(_, _, _, _, _)

\* child.Name == target
findChild(child, target) == child.Name = target

\* the loop of findAtPath over n.Children
findLoop(ns, n, parts, i, results) ==
    IF i > Len(ns[n].Children) THEN results
    ELSE IF findChild(ns[ns[n].Children[i]], parts[1])
    THEN findLoop(ns, n, parts, i + 1,
                  IF Len(parts) = 1
                  THEN Append(results, ns[n].Children[i])
                  ELSE results \o findAtPath(ns, ns[n].Children[i],
                                             Tail(parts)))
    ELSE findLoop(ns, n, parts, i + 1, results)

\* Node.findAtPath
findAtPath(ns, n, parts) ==
    IF Len(parts) = 0 THEN <<n>> ELSE findLoop(ns, n, parts, 1, <<>>)

\* Node.ChildrenAtPath
ChildrenAtPath(ns, n, path) ==
    IF path.t = "string"
    THEN IF TrimPrefix(path.v) = "" THEN <<>>
         ELSE findAtPath(ns, n, Split(TrimPrefix(path.v)))
    ELSE IF path.t = "array" THEN findAtPath(ns, n, path.v)
    ELSE <<>>

\* n.Path() for a node n below the root
NodePath ==
    /\ ptPc = "new"
    /\ \E n \in 2..Len(ptNodes) :
          /\ ptNode' = n
          /\ ptPath' = Path(ptNodes, n)
    /\ ptPc' = "path"
    /\ UNCHANGED <<ptNodes, ptQuery, ptResult>>
    /\ UNCHANGED notPath

\* root.ChildrenAtPath(n.Path())
FindPath ==
    /\ ptPc = "path"
    /\ ptQuery' = [t |-> "string", v |-> ptPath]
    /\ ptResult' = ChildrenAtPath(ptNodes, 1, [t |-> "string", v |-> ptPath])
    /\ ptPc' = "found"
    /\ UNCHANGED <<ptNodes, ptNode, ptPath>>
    /\ UNCHANGED notPath

\* root.ChildrenAtPath(path) for a path of the caller
Search ==
    /\ ptPc = "new"
    /\ ptResult' = ChildrenAtPath(ptNodes, 1, ptQuery)
    /\ ptPc' = "searched"
    /\ UNCHANGED <<ptNodes, ptNode, ptPath, ptQuery>>
    /\ UNCHANGED notPath

\* ---- the trees and paths of the calls ----
PathIds == 2..(MaxPathNodes + 1)

PathNames == {"a", "b", "a/b", ""}

\* the tree in which node n has the name names[n] and the parent
\* parents[n]
PathTree(names, parents) ==
    [n \in 1..(MaxPathNodes + 1) |->
       [Name |-> IF n = 1 THEN "Root" ELSE names[n],
        Parent |-> IF n = 1 THEN NIL ELSE parents[n],
        Children |-> SelectSeq([k \in 1..(MaxPathNodes + 1) |-> k],
                               LAMBDA k : k > 1 /\ parents[k] = n)]]

PathChoices ==
    {[t |-> "string", v |-> "a"], [t |-> "string", v |-> "/a/b"],
     [t |-> "string", v |-> "a/b"], [t |-> "string", v |-> "//a"],
     [t |-> "string", v |-> "/"], [t |-> "string", v |-> "b/NOPE"],
     [t |-> "array", v |-> <<"a/b">>], [t |-> "array", v |-> <<>>]}

PathInit ==
    /\ ptNodes \in {PathTree(names, parents) :
                      names \in [PathIds -> PathNames],
                      parents \in {ps \in [PathIds -> 1..MaxPathNodes] :
                                      \A n \in PathIds : ps[n] < n}}
    /\ ptQuery \in PathChoices
    /\ ptNode = 0
    /\ ptPath = ""
    /\ ptResult = <<>>
    /\ ptPc = "new"

InitPath ==
    PathInit /\ TreeIdle /\ PsdIdle /\ RleIdle /\ ChanIdle /\ ResIdle
    /\ DescIdle /\ RenderIdle /\ BlendIdle
    /\ CursorIdle
    /\ InstIdle
    /\ FlatIdle
    /\ ExtraIdle
    /\ MaskIdle
    /\ ComposeIdle
    /\ SectionIdle

NextPath == NodePath \/ FindPath \/ Search

SpecPath == InitPath /\ [][NextPath]_vars

\* ---- claims about the tree search ----
\* the names a path asks for, level by level, one leading slash ignored
AskedNames(path) ==
    IF path.t = "array" THEN path.v
    ELSE IF TrimPrefix(path.v) = "" THEN <<>>
    ELSE Split(TrimPrefix(path.v))

\* the nodes whose names, from below the root down, are the names asked
Matches(names) ==
    {n \in 2..Len(ptNodes) : PathParts(ptNodes, n) = names}

HasSlash(str) == \E i \in 1..Len(str) : SubSeq(str, i, i) = "/"

\* C18: ChildrenAtPath returns the nodes whose names from the top level
\* down are exactly the names of the '/'-delimited path, a leading slash
\* being ignored, and the empty list when there is none; and
\* root.ChildrenAtPath(n.Path()) contains n for every node n below the root.
C18_PathRoundTrip ==
    /\ (ptPc \in {"found", "searched"} /\ ptQuery.t = "string") =>
          /\ Range(ptResult) = Matches(AskedNames(ptQuery))
          /\ Matches(AskedNames(ptQuery)) = {} => ptResult = <<>>
    /\ ptPc = "found" => ptNode \in Range(ptResult)

\* what holds of C18: the search is by exact names level by level, and
\* the path of a node leads back to it when no name on it is empty or
\* holds a slash
C18_PlainNames ==
    /\ (ptPc \in {"found", "searched"} /\ ptQuery.t = "string") =>
          /\ Range(ptResult) = Matches(AskedNames(ptQuery))
          /\ Matches(AskedNames(ptQuery)) = {} => ptResult = <<>>
    /\ (/\ ptPc = "found"
        /\ \A k \in DOMAIN PathParts(ptNodes, ptNode) :
              /\ PathParts(ptNodes, ptNode)[k] # ""
              /\ ~HasSlash(PathParts(ptNodes, ptNode)[k]))
       => ptNode \in Range(ptResult)

\* ------------------------------------------------------------------------
\* The byte cursor (psd.go: File)
\* ------------------------------------------------------------------------
\* A call returns [err, n, val]: whether it returned an error, the count or
\* offset it returned (0 when it returns none), and the bytes of the value
\* it returned or of the buffer it filled.  An integer is kept as the
\* big-endian bytes that hold it.
MaxCursorLen == 8
MaxCursorCalls == 2

notCursor ==
    <<treeVars, psdVars, rleVars, chanVars, resVars, descVars, rnVars,
      blVars, ptVars, inVars, flVars, exVars, mkVars, cpVars, liVars>>

\* File.Read on a buffer of n bytes: io.ReadFull fills the buffer from the
\* front with the bytes that are left, and fails when they are fewer than n
readBuf(data, pos, n) ==
    IF n = 0 THEN [pos |-> pos, err |-> FALSE, n |-> 0, val |-> <<>>]
    ELSE [pos |-> FileRead(pos, n, Len(data)).pos,
          err |-> FileRead(pos, n, Len(data)).err,
          n |-> FileRead(pos, n, Len(data)).pos - pos,
          val |-> [i \in 1..n |->
                     IF pos + i <= Len(data) THEN data[pos + i] ELSE 0]]

\* the readers of a value of n bytes: buf := make([]byte, n); on an error of
\* f.Read the zero value is returned, else the value that buf holds
readValue(r, n) ==
    [pos |-> r.pos, err |-> r.err, n |-> 0,
     val |-> IF r.err THEN Zeros(n) ELSE r.val]

\* ReadString returns "" with an error
readString(r) ==
    [pos |-> r.pos, err |-> r.err, n |-> 0,
     val |-> IF r.err THEN <<>> ELSE r.val]

\* the readers of integers and the size of their buffers
CursorReaders ==
    [ReadByte |-> 1, ReadUint16 |-> 2, ReadInt16 |-> 2, ReadUint32 |-> 4,
     ReadInt32 |-> 4, ReadUint64 |-> 8]

\* the call op(n) returned r
CursorReturn(op, n, r) ==
    /\ cuCalls < MaxCursorCalls
    /\ cuPc = "open"
    /\ cuCall' = [op |-> op, n |-> n]
    /\ cuPos' = r.pos
    /\ cuRet' = [err |-> r.err, n |-> r.n, val |-> r.val]
    /\ cuCalls' = cuCalls + 1
    /\ UNCHANGED <<cuData, cuPc>>
    /\ UNCHANGED notCursor

\* f.Read(p) with len(p) = n
ReadCall ==
    \E n \in 0..3 : CursorReturn("Read", n, readBuf(cuData, cuPos, n))

\* f.ReadString(n)
ReadStringCall ==
    \E n \in 0..3 :
       CursorReturn("ReadString", n, readString(readBuf(cuData, cuPos, n)))

\* f.ReadByte(), f.ReadUint16(), ..., f.ReadUint64()
ReadFixedCall ==
    \E op \in DOMAIN CursorReaders :
       CursorReturn(op, CursorReaders[op],
                    readValue(readBuf(cuData, cuPos, CursorReaders[op]),
                              CursorReaders[op]))

\* f.Skip(n)
SkipCall ==
    \E n \in 0..3 :
       CursorReturn("Skip", n,
                    [pos |-> FileSkip(cuPos, n).pos,
                     err |-> FileSkip(cuPos, n).err, n |-> 0, val |-> <<>>])

\* f.Seek(n, io.SeekStart)
SeekCall ==
    \E n \in 0..(Len(cuData) + 1) :
       CursorReturn("Seek", n,
                    [pos |-> FileSeek(n).pos, err |-> FileSeek(n).err,
                     n |-> FileSeek(n).pos, val |-> <<>>])

\* f.Tell()
TellCall ==
    CursorReturn("Tell", 0,
                 [pos |-> cuPos, err |-> FALSE, n |-> cuPos, val |-> <<>>])

\* the files: one of every length, with bytes above and below 128
CursorFile(len) == [i \in 1..len |-> (i * 67 + 129) % 256]

CursorInit ==
    /\ cuData \in {CursorFile(len) : len \in 0..MaxCursorLen}
    /\ cuPos = 0
    /\ cuCall = [op |-> "none", n |-> 0]
    /\ cuRet = [err |-> FALSE, n |-> 0, val |-> <<>>]
    /\ cuCalls = 0
    /\ cuPc = "open"

InitCursor ==
    CursorInit /\ TreeIdle /\ PsdIdle /\ RleIdle /\ ChanIdle /\ ResIdle
    /\ DescIdle /\ RenderIdle /\ BlendIdle /\ PathIdle
    /\ InstIdle
    /\ FlatIdle
    /\ ExtraIdle
    /\ MaskIdle
    /\ ComposeIdle
    /\ SectionIdle

NextCursor ==
    \/ ReadCall
    \/ ReadStringCall
    \/ ReadFixedCall
    \/ SkipCall
    \/ SeekCall
    \/ TellCall

SpecCursor == InitCursor /\ [][NextCursor]_vars

\* ---- claims about the byte cursor ----
\* the operations that read or skip a number of bytes
SizedOps == DOMAIN CursorReaders \cup {"Read", "ReadString", "Skip"}

\* the bytes that were left when the call of the step was made
LeftBefore == IF cuPos > Len(cuData) THEN 0 ELSE Len(cuData) - cuPos

\* C20: a cursor operation that is asked to read or to skip more bytes
\* than are left in the stream returns an error, and a read that fails
\* returns no partly filled value.
C20_ShortReadFails ==
    [][(cuCall'.op \in SizedOps /\ cuCall'.n > LeftBefore) =>
          /\ cuRet'.err
          /\ cuCall'.op # "Read" => \A i \in DOMAIN cuRet'.val : cuRet'.val[i] = 0
      ]_vars

\* what holds of C20: every read that is asked for more bytes than are left
\* returns an error and the zero value
C20_ShortReads ==
    [][(cuCall'.op \in SizedOps \ {"Skip"} /\ cuCall'.n > LeftBefore) =>
          /\ cuRet'.err
          /\ cuCall'.op # "Read" => \A i \in DOMAIN cuRet'.val : cuRet'.val[i] = 0
      ]_vars

\* ------------------------------------------------------------------------
\* Document instances (psd.go: New; image.go: LayerMask.Parse)
\* ------------------------------------------------------------------------
\* A file is read in units: the header (the height and the width), the
\* layer count, and one layer record after the other.  Every os.Open makes
\* an open file of its own, with its own offset; an instance keeps the
\* handle it was made with and reads through nothing else.
MaxOpens == 2

notInst ==
    <<treeVars, psdVars, rleVars, chanVars, resVars, descVars, rnVars,
      blVars, ptVars, cuVars, flVars, exVars, mkVars, cpVars, liVars>>

Insts == {1, 2}

\* the files on disk, by name: a document with a group, one with a negative
\* layer count, one that ends before its last record, one without layers,
\* one with the layer count -32768
Files ==
    [a |-> [dims |-> <<4, 6>>, count |-> 3,
            recs |-> << MkLayer(NoInfo, <<0, 0, 0, 3>>, Rect(0, 0, 0, 0)),
                        MkLayer(NoInfo, NoInfo, Rect(1, 1, 3, 2)),
                        MkLayer(<<0, 0, 0, 1>>, NoInfo, Rect(0, 0, 0, 0)) >>],
     b |-> [dims |-> <<1, 1>>, count |-> -2,
            recs |-> << MkLayer(NoInfo, NoInfo, Rect(2, 0, 4, 4)),
                        MkLayer(NoInfo, NoInfo, Rect(1, 1, 3, 2)) >>],
     c |-> [dims |-> <<4, 6>>, count |-> 2,
            recs |-> << MkLayer(NoInfo, NoInfo, Rect(1, 1, 3, 2)) >>],
     d |-> [dims |-> <<4, 6>>, count |-> 0, recs |-> <<>>],
     e |-> [dims |-> <<1, 1>>, count |-> -32768, recs |-> <<>>]]

\* the units of a file, in the order they are read, each with its kind
Units(f) ==
    <<[k |-> "dims", v |-> f.dims], [k |-> "count", v |-> f.count]>>
        \o [j \in 1..Len(f.recs) |-> [k |-> "rec", v |-> f.recs[j]]]

\* what the bytes of a unit decode to when they are read as a header, as a
\* layer count and as a layer record: the value they hold, and some value
\* of that kind when they were written as something else
asHeader(u) == IF u.k = "dims" THEN u.v ELSE <<2, 2>>
asCount(u) == IF u.k = "count" THEN u.v ELSE 1
asRecord(u) ==
    IF u.k = "rec" THEN u.v ELSE MkLayer(NoInfo, NoInfo, Rect(0, 0, 1, 1))

\* an instance that was not made yet
NoInst ==
    [pc |-> "none", name |-> "", file |-> 0, header |-> <<>>, count |-> 0,
     Layers |-> <<>>, nodes |-> <<>>, tree |-> NIL]

\* faulty variant: every instance reads through the file opened first
NewMut(open, name) ==
    [open |-> Append(open, [name |-> name, pos |-> 0, closed |-> FALSE]),
     inst |-> [NoInst EXCEPT !.pc = "new", !.name = name, !.file = 1]]
\* New: f, err := os.Open(filename); &PSD{file: &File{file: f, reader: f}}
New(open, name) ==
    [open |-> Append(open, [name |-> name, pos |-> 0, closed |-> FALSE]),
     inst |-> [NoInst EXCEPT !.pc = "new", !.name = name,
                             !.file = Len(open) + 1]]

\* a read of one unit through the handle fd: the unit at the offset of that
\* open file, whose offset moves on; an error at the end of the file and on
\* a file that was closed
unitRead(open, fd) ==
    IF ~open[fd].closed /\ open[fd].pos < Len(Units(Files[open[fd].name]))
    THEN [open |-> [open EXCEPT ![fd].pos = @ + 1], err |-> FALSE,
          val |-> <<Units(Files[open[fd].name])[open[fd].pos + 1]>>]
    ELSE [open |-> open, err |-> TRUE, val |-> <<>>]

\* the root node literal of buildTree, for a header of the given size
rootNode(dims) ==
    [Type |-> NodeTypeRoot, Layer |-> NIL, Parent |-> NIL, Children |-> <<>>,
     Left |-> 0, Top |-> 0, Right |-> dims[2], Bottom |-> dims[1]]

\* the node literal built from layer i
layerNode(type, l, i, parent) ==
    [Type |-> type, Layer |-> i, Parent |-> parent, Children |-> <<>>,
     Left |-> l.Left, Top |-> l.Top, Right |-> l.Right, Bottom |-> l.Bottom]

\* the body of the loop of buildTree for layer i; b is [nodes, stack]
treeStep(b, l, i) ==
    IF IsFolder(l)
    THEN IF IsFolderEnd(l)
         THEN IF Len(b.stack) > 1
              THEN [nodes |-> AppendChild(b.nodes,
                                 AttachTarget(SubSeq(b.stack, 1,
                                                     Len(b.stack) - 1)),
                                 b.stack[Len(b.stack)]),
                    stack |-> SubSeq(b.stack, 1, Len(b.stack) - 1)]
              ELSE b
         ELSE [nodes |-> Append(b.nodes,
                                layerNode(NodeTypeGroup, l, i,
                                          b.stack[Len(b.stack)])),
               stack |-> Append(b.stack, Len(b.nodes) + 1)]
    ELSE [nodes |-> AppendChild(
                       Append(b.nodes,
                              layerNode(NodeTypeLayer, l, i,
                                        b.stack[Len(b.stack)])),
                       b.stack[Len(b.stack)], Len(b.nodes) + 1),
          stack |-> b.stack]

RECURSIVE treeLoop(_, _, _)
\* for _, layer := range lm.Layers
treeLoop(b, layers, i) ==
    IF i > Len(layers) THEN b
    ELSE treeLoop(treeStep(b, layers[i][1], i), layers, i + 1)

\* LayerMask.buildTree: the arena of nodes, the root is node 1
buildTree(layers, dims) ==
    UpdateDimensions(
        treeLoop([nodes |-> <<rootNode(dims)>>, stack |-> <<1>>],
                 layers, 1).nodes, 1)

\* the reversal of lm.Layers at the end of parseLayerInfo
Reverse(s) == [k \in 1..Len(s) |-> s[Len(s) + 1 - k]]

\* the instances that are in the middle of their reads
Reading == {j \in Insts : inst[j].pc \in {"header", "count", "records"}}

\* a step of instance i that reads one unit and leaves the instance as s
InstRead(i, r, s) ==
    /\ inOpen' = r.open
    /\ inst' = [inst EXCEPT ![i] = s]
    /\ inMixed' = IF Reading \ {i} # {} THEN inMixed \cup {i} ELSE inMixed
    /\ UNCHANGED notInst

\* the result of a parse that ended: what the instance holds
Result(s) ==
    [err |-> s.pc = "failed", panic |-> s.pc = "panic", Layers |-> s.Layers,
     nodes |-> s.nodes, tree |-> s.tree]

\* the parse of s ended: its result is kept when it is the result of a
\* parse of the file, whose handle nobody closed
Ended(s) ==
    inResults' = IF s.pc \in {"done", "failed", "panic"}
                    /\ ~inOpen'[s.file].closed
                 THEN inResults \cup {<<s.name, Result(s)>>}
                 ELSE inResults

\* psd.New(filename), for an instance that is new or whose parse ended
InstNew(i) ==
    /\ inst[i].pc \in {"none", "done", "failed", "panic"}
    /\ Len(inOpen) < MaxOpens
    /\ \E name \in DOMAIN Files :
          /\ inOpen' = New(inOpen, name).open
          /\ inst' = [inst EXCEPT ![i] = New(inOpen, name).inst]
    /\ inMixed' = inMixed \ {i}
    /\ UNCHANGED inResults
    /\ UNCHANGED notInst

\* the instance after the header was read
headerRead(s, r) ==
    IF r.err THEN [s EXCEPT !.pc = "failed"]
    ELSE [s EXCEPT !.pc = "header", !.header = asHeader(r.val[1])]

\* p.parseHeader(): the size of the document
InstHeader(i) ==
    /\ inst[i].pc = "new"
    /\ InstRead(i, unitRead(inOpen, inst[i].file),
                headerRead(inst[i], unitRead(inOpen, inst[i].file)))
    /\ Ended(inst'[i])

\* if layerCount < 0 { layerCount = -layerCount }
abs(n) == IF n < 0 THEN ((32768 - n) % 65536) - 32768 ELSE n

\* the instance after the layer count was read: a negative count is
\* negated as an int16, lm.Layers = make([]*Layer, layerCount) panics when
\* the count is still negative; without layers the records and the
\* reversal are empty and the tree is built at once
countRead(s, r) ==
    IF r.err THEN [s EXCEPT !.pc = "failed"]
    ELSE IF abs(asCount(r.val[1])) < 0 THEN [s EXCEPT !.pc = "panic"]
    ELSE [s EXCEPT !.pc = "records",
                   !.count = abs(asCount(r.val[1])),
                   !.Layers = [k \in 1..abs(asCount(r.val[1])) |-> <<>>]]

\* parseLayerInfo: layerCount, err := lm.file.ReadInt16()
InstCount(i) ==
    /\ inst[i].pc = "header"
    /\ InstRead(i, unitRead(inOpen, inst[i].file),
                countRead(inst[i], unitRead(inOpen, inst[i].file)))
    /\ Ended(inst'[i])

\* the number of the records that were read
Filled(s) == Cardinality({k \in DOMAIN s.Layers : s.Layers[k] # <<>>})

\* the instance after record k was read: lm.Layers[i] = layer
recordRead(s, r, k) ==
    IF r.err THEN [s EXCEPT !.pc = "failed"]
    ELSE [s EXCEPT !.Layers[k] = <<asRecord(r.val[1])>>]

\* parseLayerInfo: one round of the loop over the layer records
InstRecord(i) ==
    /\ inst[i].pc = "records"
    /\ Filled(inst[i]) < inst[i].count
    /\ InstRead(i, unitRead(inOpen, inst[i].file),
                recordRead(inst[i], unitRead(inOpen, inst[i].file),
                           Filled(inst[i]) + 1))
    /\ Ended(inst'[i])

\* the instance after the records: the layers are reversed, the tree built
treeBuilt(s) ==
    [s EXCEPT !.pc = "done", !.Layers = Reverse(s.Layers),
              !.nodes = buildTree(Reverse(s.Layers), s.header), !.tree = 1]

\* the end of parseLayerInfo and lm.buildTree()
InstTree(i) ==
    /\ inst[i].pc = "records"
    /\ Filled(inst[i]) = inst[i].count
    /\ inst' = [inst EXCEPT ![i] = treeBuilt(inst[i])]
    /\ UNCHANGED <<inOpen, inMixed>>
    /\ Ended(inst'[i])
    /\ UNCHANGED notInst

\* PSD.Close: p.file.file.Close() closes the file of the instance; a
\* call of its own, before or after the calls that parse
InstClose(i) ==
    /\ inst[i].pc \in {"new", "header", "done", "failed", "panic"}
    /\ inOpen' = [inOpen EXCEPT ![inst[i].file].closed = TRUE]
    /\ UNCHANGED <<inst, inResults, inMixed>>
    /\ UNCHANGED notInst

InstInit ==
    /\ inOpen = <<>>
    /\ inst = [i \in Insts |-> NoInst]
    /\ inResults = {}
    /\ inMixed = {}

InitInst ==
    InstInit /\ TreeIdle /\ PsdIdle /\ RleIdle /\ ChanIdle /\ ResIdle
    /\ DescIdle /\ RenderIdle /\ BlendIdle /\ PathIdle /\ CursorIdle
    /\ FlatIdle
    /\ ExtraIdle
    /\ MaskIdle
    /\ ComposeIdle
    /\ SectionIdle

NextInst ==
    \/ \E i \in Insts : InstNew(i)
    \/ \E i \in Insts : InstHeader(i)
    \/ \E i \in Insts : InstCount(i)
    \/ \E i \in Insts : InstRecord(i)
    \/ \E i \in Insts : InstTree(i)
    \/ \E i \in Insts : InstClose(i)

SpecInst == InitInst /\ [][NextInst]_vars

\* ---- claims about the instances ----
\* C19: the layer list and the tree of a parse depend on the bytes of the
\* parsed file only: all parses of one file that have ended, one after the
\* other or while another instance was parsing, hold the same layers and
\* the same tree.
C19_ParseDeterministic ==
    \A x \in inResults : \A y \in inResults : x[1] = y[1] => x[2] = y[2]

\* both instances have parsed the document with the group to its end, each
\* of them reading while the other one was reading
C19_Witness ==
    /\ inMixed = Insts
    /\ \A i \in Insts :
          /\ inst[i].pc = "done" /\ inst[i].name = "a"
          /\ Len(inst[i].nodes) = 3
          /\ inst[i].nodes[2].Type = NodeTypeGroup
          /\ inst[i].nodes[2].Children = <<3>>
          /\ <<"a", Result(inst[i])>> \in inResults

\* ------------------------------------------------------------------------
\* The flattened image (image.go: Image.parseRLE)
\* ------------------------------------------------------------------------
MaxFlatRows == 2
MaxFlatChannels == 2

notFlat ==
    <<treeVars, psdVars, rleVars, chanVars, resVars, descVars, rnVars,
      blVars, ptVars, cuVars, inVars, exVars, mkVars, cpVars, liVars>>

\* the loop that reads the byte counts of all scanlines with ReadUint16
flatCounts(bytes, total) ==
    IF Len(bytes) < 2 * total
    THEN [err |-> TRUE, byteCounts |-> <<>>, fpos |-> Len(bytes)]
    ELSE [err |-> FALSE,
          byteCounts |-> [i \in 1..total |->
                             bytes[2 * i - 1] * 256 + bytes[2 * i]],
          fpos |-> 2 * total]

\* the decoding of one scanline: scanlineData is sd, dataIdx starts at 0,
\* the loop runs while pos < endPos and dataIdx < len(scanlineData)
imageScanline(sd, pos, endPos, plane) ==
    scanlineLoop(sd, Len(sd), pos, endPos, 0, plane)

RECURSIVE imageRows(_, _, _, _, _, _, _, _, _, _)
\* the loop over the scanlines of channel ch; starts keeps the index of
\* the plane at which the output of every decoded scanline begins.  After a
\* scanline pos is where its decoding stopped.
imageRows(bytes, width, height, byteCounts, ch, row, pos, fpos, plane, starts) ==
    IF row >= height
    THEN [err |-> FALSE, plane |-> plane, starts |-> starts, fpos |-> fpos]
    ELSE IF byteCounts[ch * height + row + 1] = 0
    THEN imageRows(bytes, width, height, byteCounts, ch, row + 1,
                   pos + width, fpos, plane, starts)
    ELSE IF fpos + byteCounts[ch * height + row + 1] > Len(bytes)
    THEN [err |-> TRUE, plane |-> plane, starts |-> starts,
          fpos |-> Len(bytes)]
    ELSE imageRows(bytes, width, height, byteCounts, ch, row + 1,
             imageScanline(
                 SubSeq(bytes, fpos + 1,
                        fpos + byteCounts[ch * height + row + 1]),
                 pos, pos + width, plane).pos,
             fpos + byteCounts[ch * height + row + 1],
             imageScanline(
                 SubSeq(bytes, fpos + 1,
                        fpos + byteCounts[ch * height + row + 1]),
                 pos, pos + width, plane).result,
             Append(starts, pos))

RECURSIVE imageChannels(_, _, _, _, _, _, _)
\* the loop over the channels; out is [err, channelData, starts]
imageChannels(bytes, width, height, byteCounts, channels, ch, r) ==
    IF ch >= channels \/ r.err THEN r
    ELSE imageChannels(bytes, width, height, byteCounts, channels, ch + 1,
             [err |-> imageRows(bytes, width, height, byteCounts, ch, 0, 0,
                                r.fpos, Zeros(width * height), <<>>).err,
              channelData |->
                  Append(r.channelData,
                         imageRows(bytes, width, height, byteCounts, ch, 0,
                                   0, r.fpos, Zeros(width * height),
                                   <<>>).plane),
              starts |->
                  Append(r.starts,
                         imageRows(bytes, width, height, byteCounts, ch, 0,
                                   0, r.fpos, Zeros(width * height),
                                   <<>>).starts),
              fpos |-> imageRows(bytes, width, height, byteCounts, ch, 0, 0,
                                 r.fpos, Zeros(width * height), <<>>).fpos])

\* Image.parseRLE up to the conversion of the planes to pixels
parseRLE(bytes, channels, width, height) ==
    IF flatCounts(bytes, channels * height).err
    THEN [err |-> TRUE, channelData |-> <<>>, starts |-> <<>>,
          fpos |-> Len(bytes)]
    ELSE imageChannels(bytes, width, height,
                       flatCounts(bytes, channels * height).byteCounts,
                       channels, 0,
                       [err |-> FALSE, channelData |-> <<>>,
                        starts |-> <<>>, fpos |-> 2 * channels * height])

\* the bytes of the file after the compression method: the table of the
\* byte counts of all scanlines, then the scanlines
FlatFile(rows, cut) ==
    RleStream(Flatten(rows), [r \in 1..Len(Flatten(rows)) |-> 0], cut)

\* img.parseRLE()
ImageParseRLE ==
    /\ flPc = "new"
    /\ flOut' = [err |-> parseRLE(FlatFile(flRows, flCut), Len(flRows),
                                  flW, flH).err,
                 channelData |-> parseRLE(FlatFile(flRows, flCut),
                                          Len(flRows), flW, flH).channelData,
                 starts |-> parseRLE(FlatFile(flRows, flCut), Len(flRows),
                                     flW, flH).starts]
    /\ flPc' = "done"
    /\ UNCHANGED <<flRows, flCut, flW, flH>>
    /\ UNCHANGED notFlat

\* encoded scanlines: runs that decode to 1 and to 2 bytes, a no-op that
\* decodes to nothing, and the scanline of byte count 0
FlatRowChoices ==
    { <<0, 7>>, <<1, 7, 9>>, <<255, 5>>, <<128>>, <<0, 7, 0, 9>>, <<>> }

FlatInit ==
    /\ flW \in 1..2
    /\ flH \in 1..MaxFlatRows
    /\ flRows \in UNION { [1..c -> [1..flH -> FlatRowChoices]] :
                            c \in 1..MaxFlatChannels }
    /\ flCut \in 0..1
    /\ flOut = [err |-> FALSE, channelData |-> <<>>, starts |-> <<>>]
    /\ flPc = "new"

InitFlat ==
    FlatInit /\ TreeIdle /\ PsdIdle /\ RleIdle /\ ChanIdle /\ ResIdle
    /\ DescIdle /\ RenderIdle /\ BlendIdle /\ PathIdle /\ CursorIdle
    /\ InstIdle
    /\ ExtraIdle
    /\ MaskIdle
    /\ ComposeIdle
    /\ SectionIdle

NextFlat == ImageParseRLE

SpecFlat == InitFlat /\ [][NextFlat]_vars

\* ---- claims about the flattened image ----
\* the indices at which the layer channel decoder starts the output of the
\* decoded scanlines, for the scanlines rows on their own
LayerStarts(rows, width) ==
    [k \in DOMAIN scanlineOffsets(
                     RleStream(rows, [r \in DOMAIN rows |-> 0], 0),
                     width, Len(rows)) |->
        scanlineOffsets(RleStream(rows, [r \in DOMAIN rows |-> 0], 0),
                        width, Len(rows))[k].pos]

\* the rows of byte count other than 0, by number from 0
DecodedRows(rows) ==
    SelectSeq([r \in DOMAIN rows |-> r - 1],
              LAMBDA r : rows[r + 1] # <<>>)

\* C30: when parseRLE returns without error, the output of scanline r of
\* every channel starts at index r * width of the plane of the channel,
\* which is where decompressRLE starts it for the same scanlines.
C30_ScanlinePlacement ==
    (flPc = "done" /\ ~flOut.err) =>
        \A c \in DOMAIN flRows :
            /\ flOut.starts[c] = [k \in DOMAIN DecodedRows(flRows[c]) |->
                                     DecodedRows(flRows[c])[k] * flW]
            /\ flOut.starts[c] = LayerStarts(flRows[c], flW)

\* what holds of C30: the placement of the layer channel decoder, and that
\* of parseRLE for the first decoded scanline of every channel
C30_LayerPlacement ==
    (flPc = "done" /\ ~flOut.err) =>
        \A c \in DOMAIN flRows :
            /\ LayerStarts(flRows[c], flW)
                  = [k \in DOMAIN DecodedRows(flRows[c]) |->
                        DecodedRows(flRows[c])[k] * flW]
            /\ flOut.starts[c] # <<>> =>
                  flOut.starts[c][1] = DecodedRows(flRows[c])[1] * flW

\* ------------------------------------------------------------------------
\* The extra data of a layer record (layer.go: Layer.parseRecord)
\* ------------------------------------------------------------------------
MaxInfoBlocks == 2

notExtra ==
    <<treeVars, psdVars, rleVars, chanVars, resVars, descVars, rnVars,
      blVars, ptVars, cuVars, inVars, flVars, mkVars, cpVars, liVars>>

Sig8BIM == <<56, 66, 73, 77>>
Sig8B64 == <<56, 66, 54, 52>>

\* the step of the parser: the offset moves to pos, the rest as given
ExtraStep(pos, pc) ==
    /\ exPos' = pos
    /\ exPc' = pc
    /\ UNCHANGED <<exShape, exData>>
    /\ UNCHANGED notExtra

\* extraLen, err := l.file.ReadUint32(); if extraLen > 0 { extraStart, ... }
ExtraLen ==
    /\ exPc = "len"
    /\ LET r == readBuf(exData, exPos, 4)
       IN IF r.err
          THEN ExtraStep(r.pos, "failed") /\ UNCHANGED <<exLen, exStart>>
          ELSE /\ ExtraStep(r.pos, IF BEUint32(r.val, 0) > 0 THEN "mask"
                                   ELSE "done")
               /\ exLen' = BEUint32(r.val, 0)
               /\ exStart' = IF BEUint32(r.val, 0) > 0 THEN r.pos
                             ELSE exStart
    /\ UNCHANGED <<exEnd, exMask, exName, exInfo>>

\* the mask that the 18 bytes m hold
maskOf(m) ==
    [Top |-> BEInt32(m, 0), Left |-> BEInt32(m, 4), Bottom |-> BEInt32(m, 8),
     Right |-> BEInt32(m, 12), DefaultColor |-> m[17], Flags |-> m[18]]

\* Layer.parseLayerMaskData at offset pos: [pos, err, Mask]; the six fields
\* are read one after the other, a short file fails the read it ends in,
\* and after them the file is sought to maskEnd
parseLayerMaskData(data, pos) ==
    LET r == readBuf(data, pos, 4)
        m == readBuf(data, r.pos, 18)
    IN IF r.err THEN [pos |-> r.pos, err |-> TRUE, Mask |-> <<>>]
       ELSE IF BEUint32(r.val, 0) = 0
       THEN [pos |-> r.pos, err |-> FALSE, Mask |-> <<>>]
       ELSE IF m.err THEN [pos |-> m.pos, err |-> TRUE, Mask |-> <<>>]
       ELSE [pos |-> FileSeek(r.pos + BEUint32(r.val, 0)).pos,
             err |-> FALSE, Mask |-> <<maskOf(m.val)>>]

\* if err := l.parseLayerMaskData(); err != nil { return err }
ExtraMask ==
    /\ exPc = "mask"
    /\ ExtraStep(parseLayerMaskData(exData, exPos).pos,
                 IF parseLayerMaskData(exData, exPos).err THEN "failed"
                 ELSE "ranges")
    /\ exMask' = parseLayerMaskData(exData, exPos).Mask
    /\ UNCHANGED <<exLen, exStart, exEnd, exName, exInfo>>

\* Layer.parseBlendingRanges at offset pos: [pos, err]
parseBlendingRanges(data, pos) ==
    LET r == readBuf(data, pos, 4)
    IN IF r.err THEN [pos |-> r.pos, err |-> TRUE]
       ELSE IF BEUint32(r.val, 0) > 0
       THEN FileSkip(r.pos, BEUint32(r.val, 0))
       ELSE [pos |-> r.pos, err |-> FALSE]

\* if err := l.parseBlendingRanges(); err != nil { return err }
ExtraRanges ==
    /\ exPc = "ranges"
    /\ ExtraStep(parseBlendingRanges(exData, exPos).pos,
                 IF parseBlendingRanges(exData, exPos).err THEN "failed"
                 ELSE "name")
    /\ UNCHANGED <<exLen, exStart, exEnd, exMask, exName, exInfo>>

\* padSize := (4 - ((nameLen + 1) % 4)) % 4, in uint8
namePad(nameLen) == (4 - (((nameLen + 1) % 256) % 4)) % 4

\* Layer.parseLayerName at offset pos: [pos, err, Name]
parseLayerName(data, pos) ==
    LET n == readBuf(data, pos, 1)
        s == readBuf(data, n.pos, IF n.err THEN 0 ELSE n.val[1])
    IN IF n.err THEN [pos |-> n.pos, err |-> TRUE, Name |-> <<>>]
       ELSE IF s.err THEN [pos |-> s.pos, err |-> TRUE, Name |-> <<>>]
       ELSE [pos |-> FileSkip(s.pos, namePad(n.val[1])).pos, err |-> FALSE,
             Name |-> s.val]

\* remainingExtra := int64(extraLen) - (currentPos - extraStart)
remainingExtra(extraLen, currentPos, extraStart) ==
    extraLen - (currentPos - extraStart)

\* the layer name, and the start of parseAdditionalLayerInfo when bytes of
\* the extra data remain: l.LayerInfo = make(map), endPos = Tell() + length
ExtraName ==
    /\ exPc = "name"
    /\ LET r == parseLayerName(exData, exPos)
       IN IF r.err
          THEN ExtraStep(r.pos, "failed") /\ UNCHANGED <<exName, exEnd>>
          ELSE /\ exName' = r.Name
               /\ IF remainingExtra(exLen, r.pos, exStart) > 0
                  THEN /\ ExtraStep(r.pos, "info")
                       /\ exEnd' = r.pos
                                   + remainingExtra(exLen, r.pos, exStart)
                  ELSE ExtraStep(r.pos, "done") /\ UNCHANGED exEnd
    /\ UNCHANGED <<exLen, exStart, exMask, exInfo>>

\* the padding skipped after the data of a block
infoPad(dataLen) == IF dataLen % 4 # 0 THEN 4 - (dataLen % 4) ELSE 0

\* one round of the loop of parseAdditionalLayerInfo at offset pos < endPos:
\* [pos, brk, store, key, val]; brk is set when the round breaks the loop
infoBlock(data, pos) ==
    LET sig == readBuf(data, pos, 4)
        key == readBuf(data, sig.pos, 4)
        len == readBuf(data, key.pos, 4)
        val == readBuf(data, len.pos,
                       IF len.err THEN 0 ELSE BEUint32(len.val, 0))
    IN IF sig.err \/ (sig.val # Sig8BIM /\ sig.val # Sig8B64)
       THEN [pos |-> sig.pos, brk |-> TRUE, store |-> FALSE, key |-> <<>>,
             val |-> <<>>]
       ELSE IF key.err
       THEN [pos |-> key.pos, brk |-> TRUE, store |-> FALSE, key |-> <<>>,
             val |-> <<>>]
       ELSE IF len.err
       THEN [pos |-> len.pos, brk |-> TRUE, store |-> FALSE, key |-> <<>>,
             val |-> <<>>]
       ELSE IF BEUint32(len.val, 0) = 0
       THEN [pos |-> len.pos, brk |-> FALSE, store |-> FALSE, key |-> <<>>,
             val |-> <<>>]
       ELSE IF val.err
       THEN [pos |-> val.pos, brk |-> TRUE, store |-> FALSE, key |-> <<>>,
             val |-> <<>>]
       ELSE [pos |-> FileSkip(val.pos, infoPad(BEUint32(len.val, 0))).pos,
             brk |-> FALSE, store |-> TRUE, key |-> key.val,
             val |-> val.val]

\* l.LayerInfo[key] = data
infoStore(info, key, val) ==
    {p \in info : p[1] # key} \cup {<<key, val>>}

\* a round of the loop that does not leave it
ExtraInfoBlock ==
    /\ exPc = "info"
    /\ exPos < exEnd
    /\ ~infoBlock(exData, exPos).brk
    /\ ExtraStep(infoBlock(exData, exPos).pos, "info")
    /\ exInfo' = IF infoBlock(exData, exPos).store
                 THEN infoStore(exInfo, infoBlock(exData, exPos).key,
                                infoBlock(exData, exPos).val)
                 ELSE exInfo
    /\ UNCHANGED <<exLen, exStart, exEnd, exMask, exName>>

\* string(rune): the UTF-8 bytes of a rune below 65536
utf8(r) ==
    IF r < 128 THEN <<r>>
    ELSE IF r < 2048 THEN <<192 + (r \div 64), 128 + (r % 64)>>
    ELSE <<224 + (r \div 4096), 128 + ((r \div 64) % 64), 128 + (r % 64)>>

\* byte i of the buffer of 2 * length bytes into which reader.Read copied
\* what was left of data after the length; the rest of the buffer is 0
nameByte(data, i) == IF 4 + i <= Len(data) THEN data[4 + i] ELSE 0

\* parseUnicodeName: "" for a missing or zero length and when no byte
\* follows the length, else the runes of the UTF-16 units as a string
parseUnicodeName(data) ==
    IF Len(data) < 4 THEN <<>>
    ELSE IF BEUint32(data, 0) = 0 THEN <<>>
    ELSE IF Len(data) = 4 THEN <<>>
    ELSE Flatten([i \in 1..BEUint32(data, 0) |->
                    utf8(runeOfUnit(nameByte(data, 2 * i - 1) * 256
                                    + nameByte(data, 2 * i)))])

\* Layer.EnhanceLayerWithParsedInfo: the name of the layer; a name in the
\* block luni that is not empty replaces the Pascal name
EnhanceLayerWithParsedInfo(name, info) ==
    IF \E p \in info : p[1] = <<108, 117, 110, 105>>
                       /\ parseUnicodeName(p[2]) # <<>>
    THEN parseUnicodeName(
             (CHOOSE p \in info : p[1] = <<108, 117, 110, 105>>)[2])
    ELSE name

\* the loop ends, at currentPos >= endPos or with a break, and parseRecord
\* calls l.EnhanceLayerWithParsedInfo() and returns nil
ExtraInfoEnd ==
    /\ exPc = "info"
    /\ IF exPos >= exEnd THEN ExtraStep(exPos, "done")
       ELSE /\ infoBlock(exData, exPos).brk
            /\ ExtraStep(infoBlock(exData, exPos).pos, "done")
    /\ exName' = EnhanceLayerWithParsedInfo(exName, exInfo)
    /\ UNCHANGED <<exLen, exStart, exEnd, exMask, exInfo>>

\* ---- the files of the extra data ----
MaskBytes(m) ==
    IF m = 0 THEN EncUint32(0)
    ELSE EncUint32(20) \o EncUint32(1) \o EncUint32(1) \o EncUint32(3)
         \o EncUint32(2) \o <<255, 0>> \o <<0, 0>>

RangesBytes(n) == EncUint32(n) \o Zeros(n)

NameBytes(name) == <<Len(name)>> \o name \o Zeros(namePad(Len(name)))

\* a block: its signature, key and data, and the padding bytes written
\* after the data
BlockBytes(b) ==
    b.sig \o b.key \o EncUint32(Len(b.data)) \o b.data \o Zeros(b.pad)

\* blocks as they are written to files: data of 4 bytes, data of 1 byte
\* with and without padding to 4 bytes, no data, a block with a
\* signature other than 8BIM and 8B64, and Unicode names of one character
\* and of two characters of which one is there
PaddedBlocks ==
    { [sig |-> Sig8BIM, key |-> <<108, 117, 110, 105>>,
       data |-> <<0, 0, 0, 0>>, pad |-> 0],
      [sig |-> Sig8BIM, key |-> <<108, 117, 110, 105>>,
       data |-> <<0, 0, 0, 1, 0, 66>>, pad |-> 2],
      [sig |-> Sig8BIM, key |-> <<108, 117, 110, 105>>,
       data |-> <<0, 0, 0, 2, 0, 66>>, pad |-> 2],
      [sig |-> Sig8BIM, key |-> <<105, 79, 112, 97>>, data |-> <<200>>,
       pad |-> 3],
      [sig |-> Sig8B64, key |-> <<108, 115, 99, 116>>,
       data |-> <<0, 0, 0, 1>>, pad |-> 0],
      [sig |-> Sig8BIM, key |-> <<108, 110, 115, 114>>, data |-> <<>>,
       pad |-> 0] }

InfoBlockChoices ==
    PaddedBlocks \cup
    { [sig |-> Sig8BIM, key |-> <<105, 79, 112, 97>>, data |-> <<200>>,
       pad |-> 0],
      [sig |-> <<56, 66, 73, 88>>, key |-> <<108, 117, 110, 105>>,
       data |-> <<0, 0, 0, 0>>, pad |-> 0] }

\* the extra data of a shape
ExtraBytes(sh) ==
    MaskBytes(sh.mask) \o RangesBytes(sh.ranges) \o NameBytes(sh.name)
    \o Flatten([i \in DOMAIN sh.blocks |-> BlockBytes(sh.blocks[i])])

\* the first bytes of the record that follows
NextRecord == <<0, 0, 0, 9, 0, 0, 0, 9>>

\* the file: the length of the extra data, the extra data, the next record,
\* without the last cut bytes; a shape without extra data has length 0
ExtraFile(sh) ==
    IF sh.none THEN EncUint32(0) \o NextRecord
    ELSE SubSeq(EncUint32(Len(ExtraBytes(sh))) \o ExtraBytes(sh)
                    \o NextRecord,
                1, 4 + Len(ExtraBytes(sh)) + Len(NextRecord) - sh.cut)

ExtraShapes ==
    [none : {FALSE}, mask : {0, 1}, ranges : {0, 4},
     name : {<<>>, <<97>>, <<97, 98, 99>>},
     blocks : UNION { [1..n -> InfoBlockChoices] : n \in 0..MaxInfoBlocks },
     cut : {0, 10, 14}]
    \cup [none : {TRUE}, mask : {0}, ranges : {0}, name : {<<>>},
          blocks : {<<>>}, cut : {0}]

ExtraInit ==
    /\ exShape \in ExtraShapes
    /\ exData = ExtraFile(exShape)
    /\ exPos = 0
    /\ exLen = 0
    /\ exStart = 0
    /\ exEnd = 0
    /\ exMask = <<>>
    /\ exName = <<>>
    /\ exInfo = {}
    /\ exPc = "len"

InitExtra ==
    ExtraInit /\ TreeIdle /\ PsdIdle /\ RleIdle /\ ChanIdle /\ ResIdle
    /\ DescIdle /\ RenderIdle /\ BlendIdle /\ PathIdle /\ CursorIdle
    /\ InstIdle /\ FlatIdle
    /\ MaskIdle
    /\ ComposeIdle
    /\ SectionIdle

NextExtra ==
    \/ ExtraLen
    \/ ExtraMask
    \/ ExtraRanges
    \/ ExtraName
    \/ ExtraInfoBlock
    \/ ExtraInfoEnd

SpecExtra == InitExtra /\ [][NextExtra]_vars

\* ---- claims about the extra data ----
\* C23: when a layer record with an extra-data length above 0 was parsed
\* without error, the offset of the file is the offset at which the extra
\* data started plus that length.
C23_CursorAtExtraEnd ==
    (exPc = "done" /\ exLen > 0) => exPos = exStart + exLen

\* what holds of C23: the offset is at the end of the extra data when the
\* file is whole and every block has a signature 8BIM or 8B64 and is
\* followed by its padding to 4 bytes
C23_PaddedBlocks ==
    (exPc = "done" /\ exLen > 0 /\ exShape.cut = 0
        /\ \A i \in DOMAIN exShape.blocks : exShape.blocks[i] \in PaddedBlocks)
        => exPos = exStart + exLen

\* ------------------------------------------------------------------------
\* The user mask of a layer (layer.go: parseChannelData; renderer.go:
\* renderLayer)
\* ------------------------------------------------------------------------
notMask ==
    <<treeVars, psdVars, rleVars, chanVars, resVars, descVars, rnVars,
      blVars, ptVars, cuVars, inVars, flVars, exVars, cpVars, liVars>>

\* the switch on the compression in parseChannelData, for a channel whose
\* data was read whole: l.channels[id], <<>> when no entry is made
channelImage(compression, data, layer) ==
    IF compression = 0 THEN <<data>>
    ELSE IF compression = 1
    THEN <<decompressRLE(data, Width(layer), Height(layer))>>
    ELSE <<>>

\* maskData of renderLayer: <<>> for nil, else <<ch.Data>>
maskDataOf(mask, ch) ==
    IF mask # <<>> /\ ~IsEmpty(mask[1]) /\ ch # <<>> THEN ch ELSE <<>>

\* the alpha a of the pixel (x, y) after "Apply mask to alpha"; a comes
\* from srcColor.RGBA() and is on the 16-bit scale
maskAlpha(layer, mask, maskData, x, y, a) ==
    LET maskWidth == Width(mask)
        maskHeight == Height(mask)
        maskX == (layer.Left + x) - mask.Left
        maskY == (layer.Top + y) - mask.Top
    IN IF maskX < 0 \/ maskX >= maskWidth \/ maskY < 0 \/ maskY >= maskHeight
       THEN 0
       ELSE IF maskY * maskWidth + maskX < Len(maskData)
       THEN ((a \div 256) * maskData[maskY * maskWidth + maskX + 1]) \div 255
       ELSE a

\* srcColor as it is handed to the blend function; md is maskDataOf
maskedSource(layer, mask, md, x, y, src) ==
    IF md = <<>> THEN src
    ELSE [R |-> uint8(RGBA16(src.R) \div 256),
          G |-> uint8(RGBA16(src.G) \div 256),
          B |-> uint8(RGBA16(src.B) \div 256),
          A |-> uint8(maskAlpha(layer, mask[1], md[1], x, y,
                                RGBA16(src.A)))]

\* the mask image that the file holds for a mask rectangle: its pixel at
\* (x, y), its plane row by row, and the plane as the file stores it raw
\* and with one literal run for every row
MaskPixel(x, y) == (50 + 40 * x + 90 * y) % 256

MaskImage(m) ==
    [i \in 1..(Width(m) * Height(m)) |->
        MaskPixel((i - 1) % Width(m), (i - 1) \div Width(m))]

MaskChannelData(m, compression) ==
    IF compression = 1
    THEN RleStream([y \in 1..Height(m) |->
                       <<Width(m) - 1>>
                       \o [x \in 1..Width(m) |-> MaskPixel(x - 1, y - 1)]],
                   [y \in 1..Height(m) |-> 0], 0)
    ELSE MaskImage(m)

\* parseChannelData for the channel -2 of the layer
MaskParseChannel ==
    /\ mkPc = "parse"
    /\ mkChannel' = IF mkMask = <<>> THEN <<>>
                    ELSE channelImage(mkComp,
                                      MaskChannelData(mkMask[1], mkComp),
                                      mkLayer)
    /\ mkPc' = "render"
    /\ UNCHANGED <<mkLayer, mkMask, mkComp, mkAlpha, mkIdx, mkSrc, mkCanvas>>
    /\ UNCHANGED notMask

\* the pixel of the layer image: the colour channels are constant
MaskSource == [R |-> 10, G |-> 20, B |-> 30, A |-> mkAlpha]

\* a fresh canvas is transparent
CanvasPixel == [R |-> 0, G |-> 0, B |-> 0, A |-> 0]

\* one round of the pixel loop of renderLayer, for a layer with the blend
\* mode norm and opacity 255 on a canvas that holds the whole layer
MaskRenderPixel ==
    /\ mkPc = "render"
    /\ mkIdx < Width(mkLayer) * Height(mkLayer)
    /\ LET src == maskedSource(mkLayer, mkMask,
                               maskDataOf(mkMask, mkChannel),
                               mkIdx % Width(mkLayer),
                               mkIdx \div Width(mkLayer), MaskSource)
       IN /\ mkSrc' = Append(mkSrc, src)
          /\ mkCanvas' = Append(mkCanvas,
                                CallBlend(GetBlendFunc("norm"), src,
                                          CanvasPixel, 255))
    /\ mkIdx' = mkIdx + 1
    /\ UNCHANGED <<mkLayer, mkMask, mkComp, mkAlpha, mkChannel, mkPc>>
    /\ UNCHANGED notMask

\* the end of the pixel loop
MaskRenderDone ==
    /\ mkPc = "render"
    /\ mkIdx >= Width(mkLayer) * Height(mkLayer)
    /\ mkPc' = "done"
    /\ UNCHANGED <<mkLayer, mkMask, mkComp, mkAlpha, mkChannel, mkIdx, mkSrc,
                   mkCanvas>>
    /\ UNCHANGED notMask

\* layers of 1 to 4 pixels, masks of 1 to 6 pixels around them, no mask
MaskLayers ==
    { Rect(t, l, t + h, l + w) : t \in {0, 1}, l \in {0, 1}, h \in {1, 2},
                                 w \in {1, 2} }

MaskRects ==
    { Rect(t, l, t + h, l + w) : t \in {0, 1}, l \in {0, 1}, h \in {1, 2},
                                 w \in {1, 2, 3} }

MaskInit ==
    /\ mkLayer \in MaskLayers
    /\ mkMask \in {<<>>} \cup { <<m>> : m \in MaskRects }
    /\ mkComp \in {0, 1, 2}
    /\ mkAlpha \in {128, 255}
    /\ mkChannel = <<>>
    /\ mkIdx = 0
    /\ mkSrc = <<>>
    /\ mkCanvas = <<>>
    /\ mkPc = "parse"

InitMask ==
    MaskInit /\ TreeIdle /\ PsdIdle /\ RleIdle /\ ChanIdle /\ ResIdle
    /\ DescIdle /\ RenderIdle /\ BlendIdle /\ PathIdle /\ CursorIdle
    /\ InstIdle /\ FlatIdle /\ ExtraIdle
    /\ ComposeIdle
    /\ SectionIdle

NextMask ==
    \/ MaskParseChannel
    \/ MaskRenderPixel
    \/ MaskRenderDone

SpecMask == InitMask /\ [][NextMask]_vars

\* ---- claims about the user mask ----
\* the layer has a mask that is not empty and a plane of channel -2
Masked == mkMask # <<>> /\ mkChannel # <<>>

\* C29: the plane of channel -2 has mask width * mask height bytes and
\* holds the pixels of the mask row by row, whatever the compression was.
C29_MaskPlaneLayout ==
    (mkPc # "parse" /\ Masked) =>
        /\ Len(mkChannel[1]) = Width(mkMask[1]) * Height(mkMask[1])
        /\ \A x \in 0..(Width(mkMask[1]) - 1) :
           \A y \in 0..(Height(mkMask[1]) - 1) :
               mkChannel[1][y * Width(mkMask[1]) + x + 1] = MaskPixel(x, y)

\* what holds of C29: the plane of a raw channel, and that of an RLE
\* channel of a layer as wide and as high as its mask
C29_RawMaskPlane ==
    (mkPc # "parse" /\ Masked
        /\ (mkComp = 0 \/ (Width(mkLayer) = Width(mkMask[1])
                           /\ Height(mkLayer) = Height(mkMask[1])))) =>
        mkChannel[1] = MaskImage(mkMask[1])

\* the alpha that pixel i of the layer is to be composited with
MaskedAlpha(i) ==
    LET mx == (mkLayer.Left + ((i - 1) % Width(mkLayer))) - mkMask[1].Left
        my == (mkLayer.Top + ((i - 1) \div Width(mkLayer)))
              - mkMask[1].Top
    IN IF mx \in 0..(Width(mkMask[1]) - 1) /\ my \in 0..(Height(mkMask[1]) - 1)
       THEN (mkAlpha * MaskPixel(mx, my)) \div 255
       ELSE 0

\* C21: with a mask and a plane of channel -2, a source pixel outside the
\* rectangle of the mask is composited with alpha 0 and one inside it
\* with its alpha times the mask pixel at its place, divided by 255.
C21_MaskedAlpha ==
    Masked => \A i \in DOMAIN mkSrc : mkSrc[i].A = MaskedAlpha(i)

\* what holds of C21: the same, when the plane holds the mask image
C21_WholePlane ==
    (Masked /\ mkChannel[1] = MaskImage(mkMask[1])) =>
        \A i \in DOMAIN mkSrc : mkSrc[i].A = MaskedAlpha(i)

\* ------------------------------------------------------------------------
\* Composition of two pixels (header.go: the blend functions;
\* renderer.go: Renderer.renderLayer)
\* ------------------------------------------------------------------------
\* renderLayer calls blendFunc(srcColor, dstColor, calculatedOpacity) with
\* the opacity of the layer scaled by its fill opacity.  blendNormal,
\* blendDissolve and blendLinearLight are computed in full.  The other
\* blend functions are computed as far as their integer tests go: what they
\* return when the scaled source alpha is 0 or the destination is
\* transparent; past these they work on floating-point numbers or on colour
\* models, and a call returns OtherBlend.
notCompose == <<treeVars, psdVars, rleVars, chanVars, resVars, descVars, rnVars, blVars, ptVars, cuVars, inVars, flVars, exVars, mkVars, liVars>>

\* a runtime panic: integer divide by zero
DivideByZero == [R |-> -2, G |-> -2, B |-> -2, A |-> -2]

\* calculatedOpacity := uint8((uint32(layer.Opacity) *
\* uint32(layer.FillOpacity())) / 255)
calculatedOpacity(opacity, fillOpacity) == uint8((opacity * fillOpacity) \div 255)

\* uint8(v >> 8) of the 16-bit component of an 8-bit component
to8(v) == uint8(RGBA16(v) \div 256)

\* the pixel color.RGBA{uint8(r>>8), uint8(g>>8), uint8(b>>8), uint8(a>>8)}
\* of the 16-bit components of a pixel
pixel8(c) == [R |-> to8(c.R), G |-> to8(c.G), B |-> to8(c.B), A |-> to8(c.A)]

\* a / b of unsigned integers; -1 stands for the panic of a division by zero
quot(a, b) == IF b = 0 THEN -1 ELSE a \div b

\* v >> 8 of the uint32 that is v modulo 2^32, for -2^32 < v < 2^31
wrapShr8(v) == IF v >= 0 THEN v \div 256 ELSE 16777216 + (v \div 256)

\* faulty variant: no test of b < 255
linearLightChannelMut(f, b) ==
    LET result == quot(f * f, uint8(255 - b))
    IN  IF result > 255 THEN 255 ELSE result
\* linearLightChannel
linearLightChannel(f, b) ==
    IF b < 255
    THEN LET result == quot(f * f, uint8(255 - b))
         IN  IF result > 255 THEN 255 ELSE result
    ELSE 255

\* srcAlpha := (uint32(sa8) * uint32(opacity)) >> 8
lightSrcAlpha(sa8, opacity) == (sa8 * opacity) \div 256

\* mixAlpha := (srcAlpha << 8) / (srcAlpha + ((256-srcAlpha)*dstAlpha)>>8)
lightMixAlpha(srcAlpha, dstAlpha) ==
    quot(srcAlpha * 256, srcAlpha + ((256 - srcAlpha) * dstAlpha) \div 256)

\* outAlpha := dstAlpha + ((256-dstAlpha)*srcAlpha)>>8
lightOutAlpha(srcAlpha, dstAlpha) ==
    dstAlpha + ((256 - dstAlpha) * srcAlpha) \div 256

\* newR := ((uint32(dr8) << 8) + (uint32(blendR)-uint32(dr8))*mixAlpha) >> 8
\* and uint8(newR): the difference and the product wrap modulo 2^32
lightChannel(d8, blend, mixAlpha) ==
    uint8(wrapShr8(d8 * 256 + (blend - d8) * mixAlpha))

\* the end of blendLinearLight: the three channels and the returned pixel
lightOver(src, dst, mixAlpha, outAlpha) ==
    IF \/ mixAlpha < 0
       \/ linearLightChannel(to8(src.R), to8(dst.R)) < 0
       \/ linearLightChannel(to8(src.G), to8(dst.G)) < 0
       \/ linearLightChannel(to8(src.B), to8(dst.B)) < 0
    THEN DivideByZero
    ELSE [R |-> lightChannel(to8(dst.R),
                    linearLightChannel(to8(src.R), to8(dst.R)), mixAlpha),
          G |-> lightChannel(to8(dst.G),
                    linearLightChannel(to8(src.G), to8(dst.G)), mixAlpha),
          B |-> lightChannel(to8(dst.B),
                    linearLightChannel(to8(src.B), to8(dst.B)), mixAlpha),
          A |-> uint8(outAlpha)]

\* blendLinearLight
blendLinearLight(src, dst, opacity) ==
    IF to8(dst.A) = 0
    THEN [R |-> to8(src.R), G |-> to8(src.G), B |-> to8(src.B),
          A |-> uint8((to8(src.A) * opacity) \div 255)]
    ELSE IF to8(src.A) = 0
    THEN pixel8(dst)
    ELSE lightOver(src, dst,
             lightMixAlpha(lightSrcAlpha(to8(src.A), opacity), to8(dst.A)),
             lightOutAlpha(lightSrcAlpha(to8(src.A), opacity), to8(dst.A)))

\* the blend functions that end with applyBlend
FloatBlends ==
    {"blendMultiply", "blendScreen", "blendOverlay", "blendDarken",
     "blendLighten", "blendColorDodge", "blendColorBurn", "blendHardLight",
     "blendSoftLight", "blendDifference", "blendExclusion",
     "blendLinearDodge", "blendLinearBurn"}

\* uint8(d * 255) of d = float64(d32) / 65535.0 (toFloat): for each 16-bit
\* component v * 257 the float64 result truncates to the integer quotient
fromFloat(v) == uint8((RGBA16(v) * 255) \div 65535)

\* applyBlend: alpha := float64(opacity) / 255.0 * sa is 0 exactly when
\* opacity or sa is 0
applyBlend(src, dst, opacity) ==
    IF opacity = 0 \/ RGBA16(src.A) = 0
    THEN [R |-> fromFloat(dst.R), G |-> fromFloat(dst.G),
          B |-> fromFloat(dst.B), A |-> fromFloat(dst.A)]
    ELSE OtherBlend

\* the blend functions that work on hue, saturation and luminosity
AlphaBlends ==
    {"blendColor", "blendHue", "blendSaturation", "blendLuminosity"}

\* blendColor, blendHue, blendSaturation, blendLuminosity: the tests of
\* alpha == 0 and of da == 0 before the conversion to HSL
blendColor(src, dst, opacity) ==
    IF normalAlpha(src, opacity) = 0
    THEN pixel8(dst)
    ELSE IF RGBA16(dst.A) = 0
    THEN [R |-> to8(src.R), G |-> to8(src.G), B |-> to8(src.B),
          A |-> uint8(normalAlpha(src, opacity))]
    ELSE OtherBlend

\* the other blend functions on 8-bit integers
IntegerBlends ==
    {"blendVividLight", "blendPinLight", "blendHardMix", "blendSubtract",
     "blendDivide", "blendDarkerColor", "blendLighterColor"}

\* blendVividLight, blendPinLight, blendHardMix, blendSubtract,
\* blendDivide, blendDarkerColor, blendLighterColor: the tests of
\* alpha == 0 and of da == 0 before the channels are blended
blendVividLight(src, dst, opacity) ==
    IF normalAlpha(src, opacity) = 0
    THEN pixel8(dst)
    ELSE IF RGBA16(dst.A) = 0
    THEN [R |-> to8(src.R), G |-> to8(src.G), B |-> to8(src.B),
          A |-> uint8(normalAlpha(src, opacity))]
    ELSE OtherBlend

\* blended := blendFunc(srcColor, dstColor, calculatedOpacity) with
\* blendFunc := GetBlendFunc(layer.BlendModeKey), for the two functions of
\* blendNormal
ComposeNormal ==
    /\ cpPc = "call"
    /\ cpFunc \in {"blendNormal", "blendDissolve"}
    /\ cpOut' = IF cpFunc = "blendNormal"
                THEN blendNormal(cpSrc, cpDst, cpOpacity)
                ELSE blendDissolve(cpSrc, cpDst, cpOpacity)
    /\ cpPc' = "done"
    /\ UNCHANGED <<cpFunc, cpSrc, cpDst, cpOpacity>>
    /\ UNCHANGED notCompose

\* the same for blendLinearLight
ComposeLinearLight ==
    /\ cpPc = "call"
    /\ cpFunc = "blendLinearLight"
    /\ cpOut' = blendLinearLight(cpSrc, cpDst, cpOpacity)
    /\ cpPc' = "done"
    /\ UNCHANGED <<cpFunc, cpSrc, cpDst, cpOpacity>>
    /\ UNCHANGED notCompose

\* the same for a function that ends with applyBlend
ComposeFloat ==
    /\ cpPc = "call"
    /\ cpFunc \in FloatBlends
    /\ cpOut' = applyBlend(cpSrc, cpDst, cpOpacity)
    /\ cpPc' = "done"
    /\ UNCHANGED <<cpFunc, cpSrc, cpDst, cpOpacity>>
    /\ UNCHANGED notCompose

\* the same for the other blend functions
ComposeInteger ==
    /\ cpPc = "call"
    /\ cpFunc \in AlphaBlends \cup IntegerBlends
    /\ cpOut' = IF cpFunc \in AlphaBlends
                THEN blendColor(cpSrc, cpDst, cpOpacity)
                ELSE blendVividLight(cpSrc, cpDst, cpOpacity)
    /\ cpPc' = "done"
    /\ UNCHANGED <<cpFunc, cpSrc, cpDst, cpOpacity>>
    /\ UNCHANGED notCompose

\* ---- the pixels and opacities of the calls ----
\* 8-bit values at and next to the ends of the range
Bytes8 == {0, 1, 128, 254, 255}

\* the colour channels of a destination: for the functions of blendNormal
\* they stay below 129 so that no product of normalChannel reaches 2^31
ComposeDst(func) ==
    IF func \in {"blendNormal", "blendDissolve"} THEN {0, 1, 128} ELSE Bytes8

\* the layers' opacities and fill opacities
ComposeOpacities ==
    {calculatedOpacity(o, f) : o \in Bytes8, f \in {0, 128, 255}}

ComposeInit ==
    /\ cpFunc \in {GetBlendFunc(k) : k \in BlendKeys}
    /\ cpSrc \in [R : Bytes8, G : {100}, B : {255}, A : Bytes8]
    /\ cpDst \in [R : ComposeDst(cpFunc), G : {50}, B : {0}, A : Bytes8]
    /\ cpOpacity \in ComposeOpacities
    /\ cpOut = <<>>
    /\ cpPc = "call"

InitCompose ==
    /\ ComposeInit
    /\ TreeIdle
    /\ PsdIdle
    /\ RleIdle
    /\ ChanIdle
    /\ ResIdle
    /\ DescIdle
    /\ RenderIdle
    /\ BlendIdle
    /\ PathIdle
    /\ CursorIdle
    /\ InstIdle
    /\ FlatIdle
    /\ ExtraIdle
    /\ MaskIdle
    /\ SectionIdle

NextCompose ==
    \/ ComposeNormal
    \/ ComposeLinearLight
    \/ ComposeFloat
    \/ ComposeInteger

SpecCompose == InitCompose /\ [][NextCompose]_vars


\* ---- claims about the blend functions ----
\* x lies between a and b, the ends included
Between(x, a, b) == (a <= x /\ x <= b) \/ (b <= x /\ x <= a)

\* a call of blendLinearLight has returned
LightDone == cpPc = "done" /\ cpFunc = "blendLinearLight"

\* the call did not divide by zero, and the alpha it returned lies within
\* 0..255 and is not below the alpha of the destination
LightAlpha ==
    /\ cpOut # DivideByZero
    /\ cpOut.A \in 0..255
    /\ cpOut.A >= cpDst.A

\* each colour channel returned lies between the channel of the destination
\* and linearLightChannel of the two channels
LightColours ==
    /\ Between(cpOut.R, cpDst.R, linearLightChannel(cpSrc.R, cpDst.R))
    /\ Between(cpOut.G, cpDst.G, linearLightChannel(cpSrc.G, cpDst.G))
    /\ Between(cpOut.B, cpDst.B, linearLightChannel(cpSrc.B, cpDst.B))

\* C28 as stated: for all 8-bit source, destination and opacity values
\* blendLinearLight never divides by zero, each colour channel it returns
\* lies between the destination channel and the linear-light value of the
\* channel, and the alpha it returns lies within 0..255 and is not below
\* the destination alpha.
C28_LinearLightBounds == LightDone => (LightAlpha /\ LightColours)

\* C28: blendLinearLight never divides by zero and the alpha it returns
\* lies within 0..255 and is not below the destination alpha; over a
\* destination that is not fully transparent each colour channel lies
\* between the destination channel and the linear-light value, the wrap of
\* the unsigned difference cancelling out; over a fully transparent
\* destination the colour returned is the colour of the source and the
\* alpha is source alpha * opacity / 255.
C28_LinearLightOverDst ==
    LightDone =>
        /\ LightAlpha
        /\ cpDst.A > 0 => LightColours
        /\ cpDst.A = 0 =>
              cpOut = [R |-> cpSrc.R, G |-> cpSrc.G, B |-> cpSrc.B,
                       A |-> (cpSrc.A * cpOpacity) \div 255]

\* linear light over a destination that is not transparent, with a
\* linear-light value below the destination channel (the unsigned
\* difference wraps) and the result strictly between the two
C28_Witness ==
    /\ LightDone
    /\ cpDst.A > 0 /\ cpSrc.A > 0 /\ cpOpacity > 0
    /\ linearLightChannel(cpSrc.R, cpDst.R) < cpOut.R
    /\ cpOut.R < cpDst.R

\* a call returned with an opacity of 0 or a fully transparent source
NothingToBlend == cpPc = "done" /\ (cpOpacity = 0 \/ cpSrc.A = 0)

\* C27: a call with opacity 0, or with a fully transparent source pixel,
\* returns the destination pixel with its four components unchanged, for
\* every blend function and every destination, the fully transparent ones
\* included.
C27_DestinationUnchanged == NothingToBlend => cpOut = cpDst

\* what holds: every blend function but blendLinearLight returns the
\* destination; blendLinearLight returns it when its alpha is not 0 and
\* returns the colour of the source with alpha 0 when it is
C27_ButLinearLight ==
    NothingToBlend =>
        IF cpFunc = "blendLinearLight" /\ cpDst.A = 0
        THEN cpOut = [R |-> cpSrc.R, G |-> cpSrc.G, B |-> cpSrc.B, A |-> 0]
        ELSE cpOut = cpDst

\* ------------------------------------------------------------------------
\* Parse of the layer and mask section (image.go: LayerMask.Parse,
\* LayerMask.parseLayerInfo; psd.go: PSD.Layers, PSD.Tree)
\* ------------------------------------------------------------------------
\* The stream of the section is the bytes of the file from the start of the
\* section, and liRead is the offset of the file in it.  A layer of
\* lm.Layers is <<>> (nil) or <<l>>, l the fields parseRecord set;
\* l.ChannelData is <<>> before parseChannelData ran and <<m>> after it,
\* m the pairs <<ID, data>> of the map.
notSection == <<treeVars, psdVars, rleVars, chanVars, resVars, descVars, rnVars, blVars, ptVars, cuVars, inVars, flVars, exVars, mkVars, cpVars>>

MaxSectionCalls == 2

\* the fields of the LayerMask and of its file, as one value
SectionState ==
    [pc |-> liPc, read |-> liRead, log |-> liLog, Layers |-> liLayers,
     nodes |-> liNodes, root |-> liRoot]

\* int16(binary.BigEndian.Uint16(buf))
BEInt16(data, pos) ==
    IF BEUint16(data, pos) >= 32768 THEN BEUint16(data, pos) - 65536
    ELSE BEUint16(data, pos)

\* the values read so far and the outcome of the reads after them
fieldsJoin(r, rest) ==
    [pos |-> rest.pos, err |-> rest.err, vals |-> <<r.val>> \o rest.vals]

RECURSIVE readFields(_, _, _)
RECURSIVE fieldsAfter(_, _, _)
\* reads of values of the given sizes one after the other, up to the first
\* that fails: [pos, err, vals]
readFields(data, pos, sizes) ==
    IF sizes = <<>> THEN [pos |-> pos, err |-> FALSE, vals |-> <<>>]
    ELSE fieldsAfter(data, sizes, readBuf(data, pos, Head(sizes)))

\* the reads that follow the read r of the first value
fieldsAfter(data, sizes, r) ==
    IF r.err THEN [pos |-> r.pos, err |-> TRUE, vals |-> <<>>]
    ELSE fieldsJoin(r, readFields(data, r.pos, Tail(sizes)))

\* l.LayerInfo[key], NoInfo when the key is absent
infoValue(info, key) ==
    IF \E p \in info : p[1] = key
    THEN (CHOOSE p \in info : p[1] = key)[2]
    ELSE NoInfo

RECURSIVE infoLoop(_, _, _, _)
\* Layer.parseAdditionalLayerInfo: the loop from offset pos; it ends at
\* currentPos >= endPos and with the break of a round: [pos, info]
infoLoop(data, pos, endPos, info) ==
    IF pos >= endPos THEN [pos |-> pos, info |-> info]
    ELSE IF infoBlock(data, pos).brk
    THEN [pos |-> infoBlock(data, pos).pos, info |-> info]
    ELSE infoLoop(data, infoBlock(data, pos).pos, endPos,
                  IF infoBlock(data, pos).store
                  THEN infoStore(info, infoBlock(data, pos).key,
                                 infoBlock(data, pos).val)
                  ELSE info)

\* a call that returns an error with the offset at pos
recordError(pos) ==
    [pos |-> pos, err |-> TRUE, Mask |-> <<>>, Name |-> <<>>,
     LayerInfo |-> {}, layer |-> <<>>]

\* the end of parseRecord after the blocks a: EnhanceLayerWithParsedInfo
extraEnd(m, n, a) ==
    [pos |-> a.pos, err |-> FALSE, Mask |-> m.Mask,
     Name |-> EnhanceLayerWithParsedInfo(n.Name, a.info),
     LayerInfo |-> a.info]

\* parseRecord after parseLayerName: parseAdditionalLayerInfo when bytes
\* of the extra data remain
extraInfo(data, extraStart, extraLen, m, n) ==
    IF n.err THEN recordError(n.pos)
    ELSE IF remainingExtra(extraLen, n.pos, extraStart) > 0
    THEN extraEnd(m, n,
                  infoLoop(data, n.pos,
                           n.pos + remainingExtra(extraLen, n.pos,
                                                  extraStart), {}))
    ELSE extraEnd(m, n, [pos |-> n.pos, info |-> {}])

\* parseRecord after parseBlendingRanges: parseLayerName
extraName(data, extraStart, extraLen, m, b) ==
    IF b.err THEN recordError(b.pos)
    ELSE extraInfo(data, extraStart, extraLen, m,
                   parseLayerName(data, b.pos))

\* parseRecord after parseLayerMaskData: parseBlendingRanges
extraRanges(data, extraStart, extraLen, m) ==
    IF m.err THEN recordError(m.pos)
    ELSE extraName(data, extraStart, extraLen, m,
                   parseBlendingRanges(data, m.pos))

\* parseRecord after a length extraLen > 0 of the extra data was read and
\* the offset is extraStart: the mask, the blending ranges, the name, the
\* blocks when bytes of the extra data remain, and
\* EnhanceLayerWithParsedInfo: [pos, err, Mask, Name, LayerInfo]
recordExtra(data, extraStart, extraLen) ==
    extraRanges(data, extraStart, extraLen,
                parseLayerMaskData(data, extraStart))

\* the layer that parseRecord leaves: h the rectangle and the channel
\* count, c the channel information, t the blend mode key, the opacity,
\* the clipping and the flags, x the extra data
recordLayer(h, c, t, x) ==
    [Top |-> BEInt32(h.vals[1], 0), Left |-> BEInt32(h.vals[2], 0),
     Bottom |-> BEInt32(h.vals[3], 0), Right |-> BEInt32(h.vals[4], 0),
     ChannelInfo |-> [i \in 1..(Len(c.vals) \div 2) |->
                        [ID |-> BEInt16(c.vals[2 * i - 1], 0),
                         Length |-> BEUint32(c.vals[2 * i], 0)]],
     BlendModeKey |-> t.vals[1], Opacity |-> t.vals[2][1],
     Clipping |-> t.vals[3][1], Flags |-> t.vals[4][1],
     Mask |-> x.Mask, Name |-> x.Name, LayerInfo |-> x.LayerInfo,
     lsct |-> infoValue(x.LayerInfo, <<108, 115, 99, 116>>),
     lsdk |-> infoValue(x.LayerInfo, <<108, 115, 100, 107>>),
     ChannelData |-> <<>>]

\* the end of parseRecord: the error of the extra data, or nil
recordEnd(h, c, t, x) ==
    IF x.err THEN recordError(x.pos)
    ELSE [pos |-> x.pos, err |-> FALSE,
          layer |-> <<recordLayer(h, c, t, x)>>]

\* parseRecord after the length len of the extra data: `if extraLen > 0`
recordLength(data, h, c, t, len) ==
    IF len.err THEN recordError(len.pos)
    ELSE IF BEUint32(len.val, 0) > 0
    THEN recordEnd(h, c, t,
                   recordExtra(data, len.pos, BEUint32(len.val, 0)))
    ELSE recordEnd(h, c, t,
                   [pos |-> len.pos, err |-> FALSE, Mask |-> <<>>,
                    Name |-> <<>>, LayerInfo |-> {}])

\* parseRecord after the blend mode key, the opacity, the clipping and
\* the flags t: the filler is skipped and the length is read
recordFlags(data, h, c, t) ==
    IF t.err THEN recordError(t.pos)
    ELSE recordLength(data, h, c, t,
                      readBuf(data, FileSkip(t.pos, 1).pos, 4))

\* parseRecord after the blend mode signature sig
recordSignature(data, h, c, sig) ==
    IF sig.err \/ sig.val # Sig8BIM THEN recordError(sig.pos)
    ELSE recordFlags(data, h, c, readFields(data, sig.pos, <<4, 1, 1, 1>>))

\* parseRecord after the channel information c
recordChannels(data, h, c) ==
    IF c.err THEN recordError(c.pos)
    ELSE recordSignature(data, h, c, readBuf(data, c.pos, 4))

\* parseRecord after the rectangle and the channel count h: an ID of 2
\* bytes and a length of 4 bytes for every channel
recordHeader(data, h) ==
    IF h.err THEN recordError(h.pos)
    ELSE recordChannels(data, h,
             readFields(data, h.pos,
                        [i \in 1..(2 * BEUint16(h.vals[5], 0)) |->
                           IF i % 2 = 1 THEN 2 ELSE 4]))

\* Layer.parseRecord at offset pos: [pos, err, layer].  Every read that
\* fails and a blend mode signature other than 8BIM return an error; the
\* offset it returns nil at is the one the last read or skip left
parseRecord(data, pos) ==
    recordHeader(data, readFields(data, pos, <<4, 4, 4, 4, 2>>))

\* the compression method a channel of the declared length starts with at
\* offset pos, -1 when it is not read
compressionAt(data, pos, length) ==
    IF length > 2 /\ ~readBuf(data, pos, 2).err
    THEN BEUint16(readBuf(data, pos, 2).val, 0)
    ELSE -1

\* the data that the switch of parseChannelData stores for a channel that
\* starts at offset pos: the bytes for raw data, the decoded plane for RLE
channelStored(data, pos, length, l) ==
    IF compressionAt(data, pos, length) = 0
    THEN readBuf(data, pos + 2, length - 2).val
    ELSE decompressRLE(readBuf(data, pos + 2, length - 2).val, Width(l),
                       Height(l))

RECURSIVE channelLoop(_, _, _, _, _)
\* `for _, chanInfo := range l.ChannelInfo` from channel i at offset pos:
\* [pos, pc, ChannelData]
channelLoop(data, pos, l, i, stored) ==
    IF i > Len(l.ChannelInfo)
    THEN [pos |-> pos, pc |-> "loop", ChannelData |-> stored]
    ELSE LET ci == l.ChannelInfo[i]
             out == channel(pos, ci.Length,
                            compressionAt(data, pos, ci.Length),
                            <<Width(l), Height(l)>>, Len(data))
         IN IF out.pc # "loop"
            THEN [pos |-> out.pos, pc |-> out.pc, ChannelData |-> stored]
            ELSE channelLoop(data, out.pos, l, i + 1,
                    IF compressionAt(data, pos, ci.Length) \in {0, 1}
                    THEN infoStore(stored, ci.ID,
                                   channelStored(data, pos, ci.Length, l))
                    ELSE stored)

\* Layer.parseChannelData of the layer l with the file at offset pos, where
\* the last call of parseRecord or parseChannelData left it
parseChannelData(data, pos, l) == channelLoop(data, pos, l, 1, {})

\* startPos + length of LayerMask.Parse
sectionEndPos(d) == 4 + BEUint32(d.bytes, 0)

\* LayerMask.Parse up to `if length == 0 { lm.Layers = []*Layer{}; return
\* nil }`
readLength(s, d) ==
    LET r == readBuf(d.bytes, s.read, 4)
    IN IF r.err THEN [s EXCEPT !.pc = "failed", !.read = r.pos]
       ELSE IF BEUint32(r.val, 0) = 0
       THEN [s EXCEPT !.pc = "done", !.read = r.pos, !.Layers = <<>>]
       ELSE [s EXCEPT !.pc = "info", !.read = r.pos]

\* parseLayerInfo up to `if length == 0 { lm.Layers = []*Layer{}; return
\* nil }`
readInfoLength(s, d) ==
    LET r == readBuf(d.bytes, s.read, 4)
    IN IF r.err THEN [s EXCEPT !.pc = "failed", !.read = r.pos]
       ELSE IF BEUint32(r.val, 0) = 0
       THEN [s EXCEPT !.pc = "tree", !.read = r.pos, !.Layers = <<>>]
       ELSE [s EXCEPT !.pc = "count", !.read = r.pos]

\* parseLayerInfo: the layer count, negated as an int16 when it is
\* negative, and lm.Layers = make([]*Layer, layerCount), which panics when
\* the count is still negative
readCount(s, d) ==
    LET r == readBuf(d.bytes, s.read, 2)
    IN IF r.err THEN [s EXCEPT !.pc = "failed", !.read = r.pos]
       ELSE IF abs(BEInt16(r.val, 0)) < 0
       THEN [s EXCEPT !.pc = "panic", !.read = r.pos]
       ELSE [s EXCEPT !.pc = "records", !.read = r.pos,
                      !.Layers = [k \in 1..abs(BEInt16(r.val, 0)) |-> <<>>]]

\* the number of the layers of lm.Layers that are set
sectionFilled(layers) ==
    Cardinality({k \in DOMAIN layers : layers[k] # <<>>})

\* parseLayerInfo: one round of the loop over the layer records,
\* layer.parseRecord() at the offset of the file and lm.Layers[i] = layer
readRecord(s, d) ==
    LET r == parseRecord(d.bytes, s.read)
        i == sectionFilled(s.Layers) + 1
    IN IF r.err
       THEN [s EXCEPT !.pc = "failed", !.read = r.pos,
                      !.log = Append(@, [k |-> "rec", i |-> i])]
       ELSE [s EXCEPT !.read = r.pos, !.Layers[i] = r.layer,
                      !.log = Append(@, [k |-> "rec", i |-> i])]

\* the layers whose channel image data was not read yet
noData(layers) == {k \in DOMAIN layers : layers[k][1].ChannelData = <<>>}

\* faulty variant: the loop runs from the last layer to the first
nextChannelMut(layers) ==
    IF noData(layers) = {} THEN 0
    ELSE CHOOSE k \in noData(layers) : \A j \in noData(layers) : j <= k
\* `for _, layer := range lm.Layers`: the layer of the next round, 0 at the
\* end of the loop
nextChannel(layers) ==
    IF noData(layers) = {} THEN 0
    ELSE CHOOSE k \in noData(layers) : \A j \in noData(layers) : k <= j

\* parseLayerInfo: one round of the loop layer.parseChannelData(), at the
\* offset of the file
readChannelData(s, d) ==
    LET k == nextChannel(s.Layers)
        r == parseChannelData(d.bytes, s.read, s.Layers[k][1])
    IN IF r.pc # "loop"
       THEN [s EXCEPT !.pc = IF r.pc = "panic" THEN "panic" ELSE "failed",
                      !.read = r.pos,
                      !.log = Append(@, [k |-> "data", i |-> k])]
       ELSE [s EXCEPT !.read = r.pos,
                      !.Layers[k] = <<[s.Layers[k][1] EXCEPT
                                         !.ChannelData = <<r.ChannelData>>]>>,
                      !.log = Append(@, [k |-> "data", i |-> k])]

\* the end of parseLayerInfo: the reversal of lm.Layers
reverseLayers(s) == [s EXCEPT !.pc = "tree", !.Layers = Reverse(s.Layers)]

\* the end of LayerMask.Parse: the skip to the end of the section when the
\* offset is before it, and lm.buildTree()
sectionTree(s, d) ==
    [s EXCEPT !.pc = "done",
              !.read = IF s.read < sectionEndPos(d)
                       THEN FileSkip(s.read, sectionEndPos(d) - s.read).pos
                       ELSE s.read,
              !.nodes = buildTree(s.Layers, d.dims),
              !.root = 1]

\* the fields of the LayerMask after a step
SectionSet(s) ==
    /\ liPc' = s.pc
    /\ liRead' = s.read
    /\ liLog' = s.log
    /\ liLayers' = s.Layers
    /\ liNodes' = s.nodes
    /\ liRoot' = s.root
    /\ UNCHANGED <<liDoc, liCalls>>
    /\ UNCHANGED notSection

\* LayerMask.Parse: the length of the section
SectionLength ==
    /\ liPc = "new"
    /\ SectionSet(readLength(SectionState, liDoc))

\* parseLayerInfo: the length of the layer info
SectionInfoLength ==
    /\ liPc = "info"
    /\ SectionSet(readInfoLength(SectionState, liDoc))

\* parseLayerInfo: the layer count
SectionCount ==
    /\ liPc = "count"
    /\ SectionSet(readCount(SectionState, liDoc))

\* parseLayerInfo: layer.parseRecord() for the next layer
SectionRecord ==
    /\ liPc = "records"
    /\ sectionFilled(liLayers) < Len(liLayers)
    /\ SectionSet(readRecord(SectionState, liDoc))

\* parseLayerInfo: layer.parseChannelData() for the next layer
SectionChannelData ==
    /\ liPc = "records"
    /\ sectionFilled(liLayers) = Len(liLayers)
    /\ nextChannel(liLayers) # 0
    /\ SectionSet(readChannelData(SectionState, liDoc))

\* parseLayerInfo: the reversal, after the two loops
SectionReverse ==
    /\ liPc = "records"
    /\ sectionFilled(liLayers) = Len(liLayers)
    /\ nextChannel(liLayers) = 0
    /\ SectionSet(reverseLayers(SectionState))

\* LayerMask.Parse: the skip to the end of the section and lm.buildTree()
SectionBuildTree ==
    /\ liPc = "tree"
    /\ SectionSet(sectionTree(SectionState, liDoc))

\* PSD.Layers on a document whose layer and mask section was parsed
SectionLayers ==
    /\ liPc = "done"
    /\ Len(liCalls) < MaxSectionCalls
    /\ liCalls' = Append(liCalls, [name |-> "Layers", ret |-> liLayers])
    /\ UNCHANGED <<liDoc, liRead, liLog, liLayers, liNodes, liRoot, liPc>>
    /\ UNCHANGED notSection

\* PSD.Tree on such a document: LayerMask.Tree returns lm.tree
SectionTree ==
    /\ liPc = "done"
    /\ Len(liCalls) < MaxSectionCalls
    /\ liCalls' = Append(liCalls, [name |-> "Tree", ret |-> liRoot])
    /\ UNCHANGED <<liDoc, liRead, liLog, liLayers, liNodes, liRoot, liPc>>
    /\ UNCHANGED notSection

\* ---- the documents ----
\* binary.Write of a uint16, and of an int16 as its two's complement
EncUint16(n) == <<((n + 65536) \div 256) % 256, (n + 65536) % 256>>

\* a layer record as a writer holds it: the rectangle, the blend mode
\* signature, the Pascal name and the blocks after the name
MkRecord(rect, sig, name, blocks) ==
    [Top |-> rect.Top, Left |-> rect.Left, Bottom |-> rect.Bottom,
     Right |-> rect.Right, sig |-> sig, name |-> name, blocks |-> blocks]

\* the bytes of the record r with chans channels of 3 bytes each: the
\* rectangle, the channel information, the signature, the key norm, the
\* opacity, clipping, flags and filler, the length of the extra data, and
\* the extra data with no mask and no blending ranges
RecordBytes(r, chans) ==
    EncUint32(r.Top) \o EncUint32(r.Left) \o EncUint32(r.Bottom)
    \o EncUint32(r.Right) \o EncUint16(chans)
    \o Flatten([i \in 1..chans |-> EncUint16(i - 1) \o EncUint32(3)])
    \o r.sig \o <<110, 111, 114, 109>> \o <<255, 0, 8, 0>>
    \o EncUint32(Len(ExtraBytes([mask |-> 0, ranges |-> 0, name |-> r.name,
                                 blocks |-> r.blocks])))
    \o ExtraBytes([mask |-> 0, ranges |-> 0, name |-> r.name,
                   blocks |-> r.blocks])

\* the channel image data of record j: for every channel the compression
\* method 0 and the byte 10 + j
DataBytes(j, chans) == Flatten([i \in 1..chans |-> <<0, 0, 10 + j>>])

\* the layer info: the count, the records, the channel image data
InfoBytes(count, recs, chans) ==
    EncUint16(count)
    \o Flatten([j \in 1..Len(recs) |-> RecordBytes(recs[j], chans)])
    \o Flatten([j \in 1..Len(recs) |-> DataBytes(j, chans)])

\* the first bytes of the image data section, which follows
ImageStart == <<0, 0, 7, 7, 7>>

\* the bytes of the file from the start of the section: a section of
\* length 0, a layer info of length 0, or the layer info
SectionBytes(empty, noInfo, count, recs, chans) ==
    (IF empty THEN EncUint32(0)
     ELSE IF noInfo THEN EncUint32(4) \o EncUint32(0)
     ELSE EncUint32(4 + Len(InfoBytes(count, recs, chans)))
          \o EncUint32(Len(InfoBytes(count, recs, chans)))
          \o InfoBytes(count, recs, chans))
    \o ImageStart

\* the blocks of the records: the dividers of a group, a Unicode name, a
\* block with a signature other than 8BIM and 8B64, and a block of one
\* byte that is not followed by its padding
DividerStart ==
    [sig |-> Sig8BIM, key |-> <<108, 115, 99, 116>>, data |-> <<0, 0, 0, 1>>,
     pad |-> 0]
DividerEnd ==
    [sig |-> Sig8BIM, key |-> <<108, 115, 100, 107>>,
     data |-> <<0, 0, 0, 3>>, pad |-> 0]
UnicodeB ==
    [sig |-> Sig8BIM, key |-> <<108, 117, 110, 105>>,
     data |-> <<0, 0, 0, 1, 0, 66>>, pad |-> 2]
OtherSignature ==
    [sig |-> <<56, 66, 73, 88>>, key |-> <<108, 117, 110, 105>>,
     data |-> <<0, 0, 0, 0>>, pad |-> 0]
Unpadded ==
    [sig |-> Sig8BIM, key |-> <<105, 79, 112, 97>>, data |-> <<200>>,
     pad |-> 0]

\* the layer records of the documents, in the order of the file: plain
\* layers, a group with a layer, a record with a blend mode signature
\* other than 8BIM, and records whose extra data holds a block with
\* another signature or without its padding
SectionRecords ==
    { << >>,
      << MkRecord(Rect(1, 1, 3, 2), Sig8BIM, <<97>>, <<>>) >>,
      << MkRecord(Rect(2, 0, 4, 4), Sig8BIM, <<>>, <<UnicodeB>>),
         MkRecord(Rect(1, 1, 3, 2), Sig8BIM, <<97>>, <<>>) >>,
      << MkRecord(Rect(0, 0, 0, 0), Sig8BIM, <<>>, <<DividerEnd>>),
         MkRecord(Rect(1, 1, 3, 2), Sig8BIM, <<97>>, <<>>),
         MkRecord(Rect(0, 0, 0, 0), Sig8BIM, <<103>>, <<DividerStart>>) >>,
      << MkRecord(Rect(1, 1, 3, 2), <<56, 66, 73, 88>>, <<97>>, <<>>) >>,
      << MkRecord(Rect(1, 1, 3, 2), Sig8BIM, <<>>, <<OtherSignature>>) >>,
      << MkRecord(Rect(1, 1, 3, 2), Sig8BIM, <<97>>, <<Unpadded>>) >>,
      << MkRecord(Rect(2, 0, 4, 4), Sig8BIM, <<>>, <<OtherSignature>>),
         MkRecord(Rect(1, 1, 3, 2), Sig8BIM, <<97>>, <<>>) >>,
      << MkRecord(Rect(2, 0, 4, 4), Sig8BIM, <<97>>, <<>>),
         MkRecord(Rect(1, 1, 3, 2), Sig8BIM, <<>>, <<OtherSignature>>) >>,
      << MkRecord(Rect(2, 0, 4, 4), Sig8BIM, <<97>>, <<Unpadded>>),
         MkRecord(Rect(1, 1, 3, 2), Sig8BIM, <<97>>, <<>>) >>,
      << MkRecord(Rect(2, 0, 4, 4), Sig8BIM, <<97>>, <<>>),
         MkRecord(Rect(1, 1, 3, 2), Sig8BIM, <<97>>, <<Unpadded>>) >> }

\* the document with the given section, without its last cut bytes
SectionDoc(dims, empty, noInfo, count, recs, chans, cut) ==
    [dims |-> dims, count |-> count, recs |-> recs, chans |-> chans,
     cut |-> cut,
     bytes |-> SubSeq(SectionBytes(empty, noInfo, count, recs, chans), 1,
                      Len(SectionBytes(empty, noInfo, count, recs, chans))
                      - cut)]

\* the documents: sections of length 0, layer infos of length 0, layer
\* counts of either sign, records with and without a channel, files that
\* end early, and a section with the layer count -32768
SectionDocs ==
    { SectionDoc(dims, empty, noInfo, sign * Len(recs), recs, chans, cut) :
        dims \in {<<4, 6>>, <<1, 1>>}, empty \in BOOLEAN,
        noInfo \in BOOLEAN, sign \in {1, -1}, recs \in SectionRecords,
        chans \in 0..1, cut \in {0, Len(ImageStart) + 1} }
    \cup { SectionDoc(<<4, 6>>, FALSE, FALSE, -32768, <<>>, 0, 0) }

SectionInit ==
    /\ liDoc \in SectionDocs
    /\ liRead = 0
    /\ liLog = <<>>
    /\ liLayers = <<>>
    /\ liNodes = <<>>
    /\ liRoot = NIL
    /\ liCalls = <<>>
    /\ liPc = "new"

InitSection ==
    /\ SectionInit
    /\ TreeIdle
    /\ PsdIdle
    /\ RleIdle
    /\ ChanIdle
    /\ ResIdle
    /\ DescIdle
    /\ RenderIdle
    /\ BlendIdle
    /\ PathIdle
    /\ CursorIdle
    /\ InstIdle
    /\ FlatIdle
    /\ ExtraIdle
    /\ MaskIdle
    /\ ComposeIdle

NextSection ==
    \/ SectionLength
    \/ SectionInfoLength
    \/ SectionCount
    \/ SectionRecord
    \/ SectionChannelData
    \/ SectionReverse
    \/ SectionBuildTree
    \/ SectionLayers
    \/ SectionTree

SpecSection == InitSection /\ [][NextSection]_vars

\* ---- claims about the parse of the section ----
\* the number of layers the section declares, the offset at which record j
\* of the file starts, counted from 1, and the channel image data that the
\* file holds for record j
DiskCount == abs(liDoc.count)
DiskOffset(j) ==
    10 + Len(Flatten([k \in 1..(j - 1) |->
                        RecordBytes(liDoc.recs[k], liDoc.chans)]))
DiskData(j) == {<<i - 1, <<10 + j>>>> : i \in 1..liDoc.chans}

\* record j of the file with its own channel image data: the layer that
\* parseRecord reads at the offset of the record, holding the data of the
\* channels of that record
DiskLayer(j) ==
    IF parseRecord(liDoc.bytes, DiskOffset(j)).err THEN <<>>
    ELSE <<[parseRecord(liDoc.bytes, DiskOffset(j)).layer[1] EXCEPT
              !.ChannelData = <<DiskData(j)>>]>>

\* layer i of the list, counted from 1, is record N + 1 - i of the file
\* with the channel image data of that record
TopFirst(layers) ==
    \A i \in DOMAIN layers : layers[i] = DiskLayer(DiskCount + 1 - i)

\* the calls of parseRecord come first, for the records in their order,
\* and the calls of parseChannelData after them in the same order
RecordsThenChannels ==
    \A a \in DOMAIN liLog :
        liLog[a] = IF a <= DiskCount THEN [k |-> "rec", i |-> a]
                   ELSE [k |-> "data", i |-> a - DiskCount]

\* C24: all N layer records are read before any channel image data, the
\* channel image data blocks are then read in the order of the records,
\* and the list is reversed once after that: when parseLayerInfo has
\* ended, and in every result of Layers(), layer i (from 0) is record
\* N - 1 - i of the file with the channel image data of that record.
C24_RecordsThenChannelsReversed ==
    /\ RecordsThenChannels
    /\ liPc \in {"tree", "done"} => TopFirst(liLayers)
    /\ \A c \in DOMAIN liCalls :
          liCalls[c].name = "Layers" => TopFirst(liCalls[c].ret)

\* the block b has a signature 8BIM or 8B64 and is followed by its padding
\* to 4 bytes
WellFramed(b) ==
    /\ b.sig \in {Sig8BIM, Sig8B64}
    /\ b.pad = infoPad(Len(b.data))

\* what holds of C24: the calls are in that order for every file, and the
\* layers are the records in reverse with their own channel image data
\* when every block of every record is well framed
C24_WellFramedRecords ==
    /\ RecordsThenChannels
    /\ (\A j \in DOMAIN liDoc.recs :
           \A b \in DOMAIN liDoc.recs[j].blocks :
               WellFramed(liDoc.recs[j].blocks[b]))
       => /\ liPc \in {"tree", "done"} => TopFirst(liLayers)
          /\ \A c \in DOMAIN liCalls :
                liCalls[c].name = "Layers" => TopFirst(liCalls[c].ret)

\* a section of three well-framed records with a channel each was parsed
\* to its end and Layers() was called twice
C24_ThreeRecords ==
    /\ liPc = "done"
    /\ Len(liLayers) = 3
    /\ liDoc.chans = 1
    /\ Len(liLog) = 6
    /\ Len(liCalls) = 2
    /\ \A c \in DOMAIN liCalls : liCalls[c].name = "Layers"

\* the node n is a root with the rectangle of the document
DocumentRoot(n) ==
    /\ liNodes[n].Type = NodeTypeRoot
    /\ liNodes[n].Left = 0 /\ liNodes[n].Top = 0
    /\ liNodes[n].Right = liDoc.dims[2]
    /\ liNodes[n].Bottom = liDoc.dims[1]

\* the length the section declares
SectionLen == BEUint32(liDoc.bytes, 0)

\* C26: for every document whose layer and mask section was parsed without
\* an error Tree() returns a root node with the rectangle (0, 0, width,
\* height) of the document; for a section of length 0 that root has no
\* children.
C26_TreeReturnsRoot ==
    \A c \in DOMAIN liCalls :
        liCalls[c].name = "Tree" =>
            /\ liCalls[c].ret # NIL
            /\ DocumentRoot(liCalls[c].ret)
            /\ SectionLen = 0 => liNodes[liCalls[c].ret].Children = <<>>

\* what holds: Tree() returns nil for a section of length 0; for any other
\* section it returns a root node with the rectangle of the document,
\* which has no children when the layer info has length 0 or no layers
C26_RootUnlessEmptySection ==
    \A c \in DOMAIN liCalls :
        liCalls[c].name = "Tree" =>
            IF SectionLen = 0
            THEN liCalls[c].ret = NIL
            ELSE /\ liCalls[c].ret # NIL
                 /\ DocumentRoot(liCalls[c].ret)
                 /\ liLayers = <<>> =>
                       liNodes[liCalls[c].ret].Children = <<>>

\* ---- claims about the accessors after a failed stage (under Spec) ----
\* C25: a call of Layers() or Tree() on an instance whose header, resource
\* or layer-mask stage has failed returns an empty or nil result and ends
\* without a runtime fault: no accessor dereferences a section that was not
\* parsed.
C25_NoFaultAfterFailedStage ==
    /\ ~fault
    /\ lastCall.name \in {"Layers", "Tree"} => lastCall.ret.kind # "panic"

\* what holds: the accessors Header(), Resources(), LayerMask() and Image()
\* never fault and return nil when their stage failed; Layers() and Tree()
\* fault exactly when p.layerMask is still nil after their call of
\* parseLayerMask, and return the layers and the tree otherwise
C25_FaultOnlyWithoutLayerMask ==
    /\ fault <=> lastCall.ret.kind = "panic"
    /\ fault => (lastCall.name \in {"Layers", "Tree"}
                 /\ layerMask = NoLayerMask)
    /\ (lastCall.name \in {"Layers", "Tree"} /\ layerMask # NoLayerMask) =>
          ~fault

====
